---- MODULE Spec2Model ----
(***************************************************************************)
(* Reflux: the interception pipeline of MiddlewareTransport                *)
(* (src/src/middleware.ts) and the plugin runner it generates units from.  *)
(*                                                                         *)
(* Strings are sequences of symbols (each symbol one TLA+ string), so that *)
(* includes / replace / length are computed, not assumed.  A handler unit  *)
(* registered by hand is arbitrary code: what its handler does on one      *)
(* invocation is drawn from a set of handler scripts (ReqScripts, ...),    *)
(* each the transcription of a concrete JavaScript handler.                *)
(***************************************************************************)
EXTENDS Integers, Sequences, FiniteSets, TLC

VARIABLES
    middleware,        \* this.middleware: Map id -> unit, in insertion order
    ctl,               \* number of control-port operations handled so far
    pc,                \* position of the traffic item in flight
    enabledMiddleware, \* the filtered list a stage iterates over
    idx,               \* loop position in enabledMiddleware (1-based)
    currentContext,    \* processRequestMiddleware: let currentContext
    currentResponse,   \* processResponseMiddleware: let currentResponse
    processedData,     \* processWebSocketMessage: let processedData
    registered,        \* history: this.middleware as it was when the stage began
    before,            \* history: the stage's value just before the latest unit ran
    log,               \* history: one entry per handler invocation
    escaped,           \* a fault left the stage (the stage's promise rejected)
    plugins,           \* this.plugins: Map name -> plugin, entries in insertion order
    streams,           \* the ReadableStreams that exist, by stream id
    upstream,          \* history: initialResponse and the chunks its stream held
    ran,               \* history: one entry per executePlugin call in this stage
    execIn,            \* a function on its own: the arguments of the call
    execOut,           \* a function on its own: {} or the outcome of the call
    call,              \* request(): the call in progress, from entry to return
    conn,              \* connect(): the message being handled and its delivery
    store,             \* the localforage stores: plugins, pluginMetadata, status
    loads,             \* the runs of loadPluginsFromStorage, in the order begun
    api,               \* the RefluxAPI calls, in the order begun
    hist,              \* history: what the callers of the API and the transport saw
    port,              \* the control port: the messages handled, the messages posted
    wire,              \* connect(): the messages in flight and the calls made, in order
    boot,              \* RefluxTransport.init(): the call in progress and what it did
    rpc                \* RefluxAPI over a port: the calls, the pending map, the events

pluginVars == <<plugins, streams, upstream, ran>>
execVars == <<execIn, execOut>>
facadeVars == <<call, conn, store, loads, api, hist, port, wire, boot, rpc>>

vars == <<middleware, ctl, pc, enabledMiddleware, idx, currentContext,
          currentResponse, processedData, registered, before, log, escaped,
          plugins, streams, upstream, ran, execIn, execOut, call, conn, store, loads, api, hist, port, wire, boot, rpc>>

-----------------------------------------------------------------------------
(* Bounds and input domains *)

\* control-port operations handled in one behaviour
MaxCtl == 3

UnitIds == {"A", "B", "C"}

\* the capability sets a hand-registered unit may implement
CapSets == { {"onRequest", "onResponse", "modifyWebSocketMessage"},
             {"onResponse"} }

-----------------------------------------------------------------------------
(* Values *)

\* a string body; streams (kind "stream", sid > 0) are added with the plugin units
StringBody(s) == [kind |-> "string", text |-> s, sid |-> 0]
NullBody == [kind |-> "null", text |-> <<>>, sid |-> 0]

\* JavaScript truthiness of the values that go through `x || y`
FalsyBody(b) == b.kind = "null" \/ (b.kind = "string" /\ b.text = <<>>)
FalsyNumber(n) == n = 0
FalsyString(s) == s = <<>>

\* the value held by a set that stands for an optional value
The(set) == CHOOSE x \in set : TRUE

\* obj[k] = v on a string-keyed map
Put(h, k, v) == [x \in (DOMAIN h) \cup {k} |-> IF x = k THEN v ELSE h[x]]

NoHeaders == [k \in {} |-> <<>>]

\* a unit generated from a plugin closes over the plugin; others carry NoPlugin
NoPlugin == [name |-> "", sites |-> <<>>, function |-> <<>>]

\* the hand-registered unit with this id, capabilities and enabled field.
\* enabled?: boolean | (() => boolean): "true", "false", "undefined" (the
\* field is not there), or a function: "fnTrue" is () => true, "fnFalse" is
\* () => false, "fnThrows" is () => { throw new Error() }.  A unit is an
\* object: inMap says whether the map holds this very object under its id,
\* which is so for every unit of the map, and for a unit of the array of a
\* running stage until the map's entry under its id is set anew or deleted
Unit(id, caps, enabled) ==
    [id |-> id, caps |-> caps, enabled |-> enabled, plugin |-> NoPlugin, inMap |-> TRUE]

IndexOfId(m, id) ==
    IF \E i \in 1..Len(m) : m[i].id = id
        THEN CHOOSE i \in 1..Len(m) : m[i].id = id
        ELSE 0

MapHas(m, id) == IndexOfId(m, id) # 0

\* Map.prototype.set: a present key keeps its place, a new key goes last
MapSet(m, id, u) ==
    IF MapHas(m, id)
        THEN [m EXCEPT ![IndexOfId(m, id)] = u]
        ELSE Append(m, u)

\* mutant: the key stays
MapDelete_KeepsKey(m, id) == m

\* Map.prototype.delete
MapDelete(m, id) == SelectSeq(m, LAMBDA u : u.id # id)

\* typeof middleware.enabled === 'function'
IsFunction(enabled) == enabled \in {"fnTrue", "fnFalse", "fnThrows"}

\* how a call isMiddlewareEnabled(mw) ends: "true", "false", or "throws" when
\* the call middleware.enabled() throws
isMiddlewareEnabled(mw) ==
    IF IsFunction(mw.enabled)
        THEN CASE mw.enabled = "fnTrue" -> "true"
               [] mw.enabled = "fnFalse" -> "false"
               [] mw.enabled = "fnThrows" -> "throws"
        ELSE IF mw.enabled # "false" THEN "true" ELSE "false"

\* the filter callback calls isMiddlewareEnabled on every unit of the map,
\* outside any try: one call that throws makes the filter throw
FilterThrows(m) == \E i \in 1..Len(m) : isMiddlewareEnabled(m[i]) = "throws"

\* mutant: the filter without the enabled test
EnabledWith_NoEnabledTest(m, cap) == SelectSeq(m, LAMBDA mw : cap \in mw.caps)

\* Array.from(this.middleware.values()).filter(enabled && has the capability),
\* when no call throws
EnabledWith(m, cap) ==
    SelectSeq(m, LAMBDA mw : isMiddlewareEnabled(mw) = "true" /\ cap \in mw.caps)

\* the first statement of a stage: the array the loop will go over, or a
\* throw, which rejects the promise of the stage before any unit is invoked
StageEntry(m, cap) ==
    IF FilterThrows(m)
        THEN [pc |-> "failed", units |-> <<>>, escaped |-> TRUE]
        ELSE [pc |-> "running", units |-> EnabledWith(m, cap), escaped |-> FALSE]

-----------------------------------------------------------------------------
(* Strings *)

\* String.prototype.length, in symbols
JsLength(s) == Len(s)

\* String(n): the decimal text of n, one symbol
String(n) == <<n>>

StartsWithAt(s, sub, i) ==
    /\ i + Len(sub) - 1 <= Len(s)
    /\ \A k \in 1..Len(sub) : s[i + k - 1] = sub[k]

\* String.prototype.includes
Includes(s, sub) == \E i \in 1..(Len(s) + 1) : StartsWithAt(s, sub, i)

\* String.prototype.indexOf, 1-based; 0 when absent
IndexOf(s, sub) ==
    IF Includes(s, sub)
        THEN CHOOSE i \in 1..(Len(s) + 1) :
                /\ StartsWithAt(s, sub, i)
                /\ \A j \in 1..(i - 1) : ~StartsWithAt(s, sub, j)
        ELSE 0

RECURSIVE Flatten(_)
Flatten(ss) == IF ss = <<>> THEN <<>> ELSE Head(ss) \o Flatten(Tail(ss))

\* the grave accent U+0060 and the pattern made with it; the symbols carry
\* names, the character itself cannot stand in a string written here
Backtick == "[grave]"
DollarBacktick == "$[grave]"

\* the characters that make a replacement pattern when they follow a dollar
PatternChars == {"$", "&", Backtick, "'"}

\* the symbols that are a whole replacement pattern, and the character that
\* follows the dollar in each
PatternSymbols == {"$$", "$&", DollarBacktick, "$'"}
PatternChar(sym) ==
    CASE sym = "$$" -> "$"
      [] sym = "$&" -> "&"
      [] sym = DollarBacktick -> Backtick
      [] sym = "$'" -> "'"

\* what the pattern dollar-c inserts: a dollar, the matched text, the text
\* before the match, the text after the match
Expansion(c, pre, matched, post) ==
    CASE c = "$" -> <<"$">>
      [] c = "&" -> matched
      [] c = Backtick -> pre
      [] c = "'" -> post

\* the replacement patterns String.prototype.replace expands in its second
\* argument, read from the left.  A pattern is one symbol, or the symbol "$"
\* and the pattern character after it; a "$" before a pattern symbol makes
\* "$$" with that symbol's dollar and leaves its second character as text.
\* No other symbol of the texts used here begins with a pattern character or
\* ends with a dollar, and a string pattern has no groups for $1 or $<name>
RECURSIVE ExpandReplacement(_, _, _, _)
ExpandReplacement(rep, pre, matched, post) ==
    IF rep = <<>> THEN <<>>
    ELSE IF Head(rep) \in PatternSymbols
        THEN Expansion(PatternChar(Head(rep)), pre, matched, post)
                 \o ExpandReplacement(Tail(rep), pre, matched, post)
    ELSE IF Head(rep) = "$" /\ Len(rep) >= 2 /\ rep[2] \in PatternChars
        THEN Expansion(rep[2], pre, matched, post)
                 \o ExpandReplacement(Tail(Tail(rep)), pre, matched, post)
    ELSE IF Head(rep) = "$" /\ Len(rep) >= 2 /\ rep[2] \in PatternSymbols
        THEN <<"$">> \o ExpandReplacement(<<PatternChar(rep[2])>> \o Tail(Tail(rep)),
                                          pre, matched, post)
    ELSE <<Head(rep)>> \o ExpandReplacement(Tail(rep), pre, matched, post)

\* s.replace(pat, rep) with a string pattern: the first occurrence only
ReplaceFirst(s, pat, rep) ==
    LET i == IndexOf(s, pat)
        pre == SubSeq(s, 1, i - 1)
        post == SubSeq(s, i + Len(pat), Len(s))
    IN  IF i = 0 THEN s ELSE pre \o ExpandReplacement(rep, pre, pat, post) \o post

IsSpace(c) == c = " "

RECURSIVE TrimStart(_)
TrimStart(s) == IF s # <<>> /\ IsSpace(Head(s)) THEN TrimStart(Tail(s)) ELSE s

RECURSIVE TrimEnd(_)
TrimEnd(s) ==
    IF s # <<>> /\ IsSpace(s[Len(s)]) THEN TrimEnd(SubSeq(s, 1, Len(s) - 1)) ELSE s

\* String.prototype.trim
Trim(s) == TrimEnd(TrimStart(s))

-----------------------------------------------------------------------------
(* executePlugin: the plugin splitter and runner *)
(* A plugin source is a sequence of symbols: the two markers, blanks, and    *)
(* statements.  The statements a delivery-time fragment is made of:          *)
(*   x=1;            no effect          headers.p='1';  writes the map given *)
(*   return body;    return 'X';        return '';      return body+'!';     *)
(*   return 42;      throw 0;           }               (does not compile)   *)
(*   document.title='P';  content code: a ReferenceError outside a document  *)

BrowserOpen == "/* @browser */"
BrowserClose == "/* @/browser */"
HeadClose == "</head>"

\* plugin.function.match(/\/\*\s*@browser\s*\*\/([\s\S]*?)\/\*\s*@\/browser\s*\*\//):
\* {} when there is no match, else the one match [from, to] (marker positions)
BrowserCodeMatch(src) ==
    LET starts == {i \in 1..Len(src) :
                      src[i] = BrowserOpen /\ \E j \in (i + 1)..Len(src) : src[j] = BrowserClose}
    IN  IF starts = {} THEN {}
        ELSE LET i == CHOOSE x \in starts : \A y \in starts : x <= y
                 j == CHOOSE x \in (i + 1)..Len(src) :
                         /\ src[x] = BrowserClose
                         /\ \A y \in (i + 1)..(x - 1) : src[y] # BrowserClose
             IN  {[from |-> i, to |-> j]}

\* browserCodeMatch[0] and browserCodeMatch[1].trim()
MatchText(src, m) == SubSeq(src, m.from, m.to)
BrowserCode(src, m) == Trim(SubSeq(src, m.from + 1, m.to - 1))

\* the template literal scriptTag
ScriptTag(url, name, browserCode) ==
    <<"<script>(function(){const url=\"">> \o url \o <<"\";const pluginName=\"", name, "\";">>
        \o browserCode \o <<"})();</script>">>

\* modifiedBody: the body after the injection before </head>, if any
InjectedBody(plugin, body, url) ==
    LET m == BrowserCodeMatch(plugin.function)
    IN  IF m = {} THEN body
        ELSE ReplaceFirst(body, <<HeadClose>>,
                 ScriptTag(url, plugin.name, BrowserCode(plugin.function, The(m)))
                     \o <<HeadClose>>)

\* serverSideCode: the source with the matched region removed
ServerSideCode(plugin) ==
    LET m == BrowserCodeMatch(plugin.function)
    IN  IF m = {} THEN plugin.function
        ELSE ReplaceFirst(plugin.function, MatchText(plugin.function, The(m)), <<>>)

\* new Function('body', 'url', 'headers', code) throws a SyntaxError
Compiles(code) == \A k \in 1..Len(code) : code[k] # "}"

\* the call pluginFunction(body, url, headers): how it ends, the value it
\* returns, and the headers map after the writes it made
RECURSIVE RunStatements(_, _, _)
RunStatements(code, body, headers) ==
    IF code = <<>> THEN [ends |-> "undefined", value |-> <<>>, headers |-> headers]
    ELSE LET c == Head(code)
         IN  CASE c = "return body;" -> [ends |-> "string", value |-> body, headers |-> headers]
               [] c = "return 'X';" -> [ends |-> "string", value |-> <<"X">>, headers |-> headers]
               [] c = "return '';" -> [ends |-> "string", value |-> <<>>, headers |-> headers]
               [] c = "return body+'!';" ->
                      [ends |-> "string", value |-> Append(body, "!"), headers |-> headers]
               [] c = "return 42;" -> [ends |-> "number", value |-> <<>>, headers |-> headers]
               [] c \in {"throw 0;", "document.title='P';"} ->
                      [ends |-> "throw", value |-> <<>>, headers |-> headers]
               [] c = "headers.p='1';" ->
                      RunStatements(Tail(code), body, Put(headers, "p", <<"1">>))
               [] OTHER -> RunStatements(Tail(code), body, headers)

\* mutant: on a fragment that gives no string, the body as passed in is returned
executePlugin_DropsInjection(plugin, body, url, headers) ==
    LET modifiedBody == InjectedBody(plugin, body, url)
        serverSideCode == ServerSideCode(plugin)
    IN  IF Trim(serverSideCode) = <<>>
            THEN [returns |-> body, calls |-> <<>>, fault |-> "none", headers |-> headers]
        ELSE IF ~Compiles(serverSideCode)
            THEN [returns |-> body, calls |-> <<>>, fault |-> "compile",
                  headers |-> headers]
        ELSE LET run == RunStatements(serverSideCode, modifiedBody, headers)
             IN  [returns |-> IF run.ends = "string" THEN run.value ELSE body,
                  calls |-> <<modifiedBody>>,
                  fault |-> IF run.ends = "throw" THEN "runtime" ELSE "none",
                  headers |-> run.headers]

\* executePlugin(plugin, body, url, headers).  returns: the string returned;
\* calls: the bodies the delivery-time fragment was invoked with, in order;
\* fault: whether the fragment failed to compile or threw; headers: the map
\* passed in, after the fragment's writes
executePlugin(plugin, body, url, headers) ==
    LET modifiedBody == InjectedBody(plugin, body, url)
        serverSideCode == ServerSideCode(plugin)
    IN  IF Trim(serverSideCode) = <<>>
            THEN [returns |-> modifiedBody, calls |-> <<>>, fault |-> "none",
                  headers |-> headers]
        ELSE IF ~Compiles(serverSideCode)
            THEN [returns |-> modifiedBody, calls |-> <<>>, fault |-> "compile",
                  headers |-> headers]
        ELSE LET run == RunStatements(serverSideCode, modifiedBody, headers)
             IN  [returns |-> IF run.ends = "string" THEN run.value ELSE modifiedBody,
                  calls |-> <<modifiedBody>>,
                  fault |-> IF run.ends = "throw" THEN "runtime" ELSE "none",
                  headers |-> run.headers]

-----------------------------------------------------------------------------
(* Handler scripts: what a hand-registered unit's handler does when invoked. *)
(* H is the unit's id, used as the header key / marker it writes.            *)
(*   next        return await next();                                        *)
(*   set         ctx.headers[H] = "1"; return await next();                  *)
(*   patch       await next({ headers: { ...ctx.headers, [H]: "1" } });      *)
(*   patchMethod await next({ method: "POST" });                             *)
(*   ret         return { ...ctx, headers: { ...ctx.headers, [H]: "1" } };   *)
(*   skip        (returns without calling next)                              *)
(*   throw       throw new Error();                                          *)
(*   setThrow    ctx.headers[H] = "1"; throw new Error();                    *)
(*   patchThrow  await next({ headers: {...} }); throw new Error();          *)

ReqScripts == {"next", "set", "patch", "patchMethod", "ret", "skip",
               "throw", "setThrow", "patchThrow"}

ScriptCallsNext(s) == s \in {"next", "set", "patch", "patchMethod", "patchThrow"}
ScriptThrows(s) == s \in {"throw", "setThrow", "patchThrow"}

Marked(headers, id) == Put(headers, id, <<"1">>)

\* the request context after the handler's in-place writes
ReqInPlace(ctx, id, s) ==
    IF s \in {"set", "setThrow"}
        THEN [ctx EXCEPT !.headers = Marked(ctx.headers, id)]
        ELSE ctx

\* the argument the handler gives its continuation ({} stands for none)
ReqPatch(ctx, id, s) ==
    CASE s \in {"patch", "patchThrow"} -> {[field |-> "headers", value |-> Marked(ctx.headers, id)]}
      [] s = "patchMethod" -> {[field |-> "method", value |-> <<"POST">>]}
      [] OTHER -> {}

\* { ...currentContext, ...modifiedReq }
MergeRequest(cur, patch) ==
    [f \in DOMAIN cur |->
        IF \E p \in patch : p.field = f
            THEN (CHOOSE p \in patch : p.field = f).value
            ELSE cur[f]]

\* mutant: a continuation that drops the patch it is given
NextRequest_DropsPatch(cur, patch) == cur

\* the continuation of processRequestMiddleware: the context after the call
NextRequest(cur, patch) == IF patch # {} THEN MergeRequest(cur, patch) ELSE cur

\* what the handler returns, given what its continuation gave it ({} is undefined)
ReqReturn(ctx, fromNext, id, s) ==
    CASE s \in {"next", "set"} -> fromNext
      [] s = "ret" -> {[ctx EXCEPT !.headers = Marked(ctx.headers, id)]}
      [] OTHER -> {}

\* if (result) currentContext = result
AssignResult(cur, result) == IF result # {} THEN CHOOSE r \in result : TRUE ELSE cur

\* try { await handler } catch { console.error } inside the loop of each stage:
\* what the stage does after a unit, given whether the unit threw
AfterUnit(stage, threw) == "continue"

\* a URL: its hostname and its href, as strings of characters
Url(hostname) == [hostname |-> hostname, href |-> <<"x", ":">> \o hostname \o <<"/">>]

HostA == <<"a", ".", "c">>
HostB == <<"b", ".", "c">>

Context(remote, headers) == [remote |-> remote, method |-> <<"GET">>, headers |-> headers]

InitialContexts ==
    { Context(Url(HostA), NoHeaders),
      Context(Url(HostA), Marked(NoHeaders, "client")) }

-----------------------------------------------------------------------------
(* processRequestMiddleware *)

LogEntry(stage, id, script, seen, got) ==
    [stage |-> stage, id |-> id, script |-> script, seen |-> seen, got |-> got]

ProcessRequestStart(ctx) ==
    /\ pc = "idle"
    /\ \E entry \in {StageEntry(middleware, "onRequest")} :
          /\ pc' = IF entry.pc = "failed" THEN "failed" ELSE "request"
          /\ enabledMiddleware' = entry.units
          /\ escaped' = entry.escaped
    /\ currentContext' = ctx
    /\ registered' = middleware
    /\ idx' = 1
    /\ before' = ctx
    /\ log' = <<>>
    /\ UNCHANGED <<middleware, ctl, currentResponse, processedData>>
    /\ UNCHANGED <<plugins, streams, upstream, ran, execIn, execOut, facadeVars>>

ProcessRequestUnit(s) ==
    /\ pc = "request"
    /\ idx <= Len(enabledMiddleware)
    /\ LET id == enabledMiddleware[idx].id
           c1 == ReqInPlace(currentContext, id, s)
           c2 == IF ScriptCallsNext(s) THEN NextRequest(c1, ReqPatch(c1, id, s)) ELSE c1
           got == IF ScriptCallsNext(s) THEN {c2} ELSE {}
           result == IF ScriptThrows(s) THEN {} ELSE ReqReturn(c2, got, id, s)
       IN  /\ log' = Append(log, LogEntry("request", id, s, currentContext, got))
           /\ before' = currentContext
           /\ currentContext' = AssignResult(c2, result)
           /\ IF AfterUnit("request", ScriptThrows(s)) = "continue"
                 THEN /\ idx' = idx + 1
                      /\ UNCHANGED <<pc, escaped>>
                 ELSE /\ pc' = "failed"
                      /\ escaped' = TRUE
                      /\ UNCHANGED idx
    /\ UNCHANGED <<middleware, ctl, enabledMiddleware, currentResponse,
                   processedData, registered>>
    /\ UNCHANGED <<plugins, streams, upstream, ran, execIn, execOut, facadeVars>>

ProcessRequestReturn ==
    /\ pc = "request"
    /\ idx > Len(enabledMiddleware)
    /\ pc' = "requestDone"
    /\ UNCHANGED <<middleware, ctl, enabledMiddleware, idx, currentContext,
                   currentResponse, processedData, registered, before, log, escaped>>
    /\ UNCHANGED <<plugins, streams, upstream, ran, execIn, execOut, facadeVars>>

-----------------------------------------------------------------------------
(* processResponseMiddleware *)
(* Response handler scripts of a hand-registered unit:                       *)
(*   next        return await next();                                        *)
(*   mark        const r = await next();                                     *)
(*               return { ...r, headers: { ...r.headers, [H]: "1" } };       *)
(*   patch       await next({ statusText: H });                              *)
(*   ret         return { body: H, headers: {}, status: 200,                 *)
(*                        statusText: "OK" };        (no call of next)       *)
(*   skip        (returns without calling next)                              *)
(*   throw       throw new Error();                                          *)
(*   setThrow    const r = await next(); r.headers[H] = "1"; throw ...       *)
(*   patchThrow  await next({ statusText: H }); throw new Error();           *)

RespScripts == {"next", "mark", "patch", "ret", "skip",
                "throw", "setThrow", "patchThrow"}

RespCallsNext(s) == s \in {"next", "mark", "patch", "setThrow", "patchThrow"}

Response(body, headers, status, statusText) ==
    [body |-> body, headers |-> headers, status |-> status, statusText |-> statusText]

\* a Partial<TransferrableResponse>: every field is a set holding at most one value
Partial(r) ==
    [body |-> {r.body}, headers |-> {r.headers}, status |-> {r.status},
     statusText |-> {r.statusText}]
NoFields == [body |-> {}, headers |-> {}, status |-> {}, statusText |-> {}]

\* { body: p.body || cur.body, headers: p.headers || cur.headers,
\*   status: p.status || cur.status, statusText: p.statusText || cur.statusText }
MergeResponse(p, cur) ==
    [body |-> IF p.body = {} \/ FalsyBody(The(p.body)) THEN cur.body ELSE The(p.body),
     headers |-> IF p.headers = {} THEN cur.headers ELSE The(p.headers),
     status |-> IF p.status = {} \/ FalsyNumber(The(p.status))
                  THEN cur.status ELSE The(p.status),
     statusText |-> IF p.statusText = {} \/ FalsyString(The(p.statusText))
                      THEN cur.statusText ELSE The(p.statusText)]

\* the continuation of processResponseMiddleware; patch is {} (undefined) or {p}
NextResponse(cur, patch) == IF patch # {} THEN MergeResponse(The(patch), cur) ELSE cur

\* if (result) currentResponse = { body: result.body || currentResponse.body, ... }
AssignResponse(cur, result) ==
    IF result # {} THEN MergeResponse(The(result), cur) ELSE cur

RespPatch(id, s) ==
    IF s \in {"patch", "patchThrow"}
        THEN {[NoFields EXCEPT !.statusText = {<<id>>}]}
        ELSE {}

\* currentResponse after next() and the handler's in-place writes on what it got
RespInPlace(r, id, s) ==
    IF s = "setThrow" THEN [r EXCEPT !.headers = Marked(r.headers, id)] ELSE r

RespReturn(fromNext, id, s) ==
    CASE s = "next" -> {Partial(fromNext)}
      [] s = "mark" -> {Partial([fromNext EXCEPT !.headers = Marked(fromNext.headers, id)])}
      [] s = "ret" -> {Partial(Response(StringBody(<<id>>), NoHeaders, 200, <<"OK">>))}
      [] OTHER -> {}

InitialResponses ==
    { Response(StringBody(<<"x">>), NoHeaders, 200, <<"OK">>) }

\* processResponseMiddleware(context, initialResponse); heap holds the stream
\* of initialResponse.body, if it is one
ProcessResponseStart(ctx, resp, heap) ==
    /\ pc = "idle"
    /\ \E entry \in {StageEntry(middleware, "onResponse")} :
          /\ pc' = IF entry.pc = "failed" THEN "failed" ELSE "response"
          /\ enabledMiddleware' = entry.units
          /\ escaped' = entry.escaped
    /\ currentContext' = ctx
    /\ currentResponse' = resp
    /\ streams' = heap
    /\ upstream' = [response |-> resp,
                    chunks |-> IF resp.body.kind = "stream"
                                 THEN heap[resp.body.sid].chunks ELSE <<>>]
    /\ registered' = middleware
    /\ idx' = 1
    /\ before' = resp
    /\ log' = <<>>
    /\ ran' = <<>>
    /\ UNCHANGED <<middleware, ctl, processedData, plugins, execIn, execOut, facadeVars>>

ProcessResponseUnit(s) ==
    /\ pc = "response"
    /\ idx <= Len(enabledMiddleware)
    /\ enabledMiddleware[idx].plugin = NoPlugin
    /\ LET id == enabledMiddleware[idx].id
           r1 == IF RespCallsNext(s)
                   THEN RespInPlace(NextResponse(currentResponse, RespPatch(id, s)), id, s)
                   ELSE currentResponse
           got == IF RespCallsNext(s) THEN {r1} ELSE {}
           result == IF ScriptThrows(s) THEN {} ELSE RespReturn(r1, id, s)
       IN  /\ log' = Append(log, LogEntry("response", id, s, currentResponse, got))
           /\ before' = currentResponse
           /\ currentResponse' = AssignResponse(r1, result)
           /\ IF AfterUnit("response", ScriptThrows(s)) = "continue"
                 THEN /\ idx' = idx + 1
                      /\ UNCHANGED <<pc, escaped>>
                 ELSE /\ pc' = "failed"
                      /\ escaped' = TRUE
                      /\ UNCHANGED idx
    /\ UNCHANGED <<middleware, ctl, enabledMiddleware, currentContext,
                   processedData, registered>>
    /\ UNCHANGED <<plugins, streams, upstream, ran, execIn, execOut, facadeVars>>

ProcessResponseReturn ==
    /\ pc = "response"
    /\ idx > Len(enabledMiddleware)
    /\ pc' = "responseDone"
    /\ UNCHANGED <<middleware, ctl, enabledMiddleware, idx, currentContext,
                   currentResponse, processedData, registered, before, log, escaped>>
    /\ UNCHANGED <<plugins, streams, upstream, ran, execIn, execOut, facadeVars>>

-----------------------------------------------------------------------------
(* processWebSocketMessage *)
(* Message handler scripts:                                                  *)
(*   same   return data;          tag    return data + H;                    *)
(*   none   (returns undefined)   throw  throw new Error();                  *)

MsgScripts == {"same", "tag", "none", "throw"}

MsgReturn(data, id, s) ==
    CASE s = "same" -> {data}
      [] s = "tag" -> {Append(data, id)}
      [] OTHER -> {}

\* if (result !== undefined) processedData = result
AssignData(cur, result) == IF result # {} THEN The(result) ELSE cur

Messages == { <<"m">> }
Directions == {"send", "receive"}

ProcessMessageStart(data, direction) ==
    /\ pc = "idle"
    /\ \E entry \in {StageEntry(middleware, "modifyWebSocketMessage")} :
          /\ pc' = IF entry.pc = "failed" THEN "failed" ELSE "message"
          /\ enabledMiddleware' = entry.units
          /\ escaped' = entry.escaped
    /\ processedData' = data
    /\ registered' = middleware
    /\ idx' = 1
    /\ before' = data
    /\ log' = <<>>
    /\ UNCHANGED <<middleware, ctl, currentContext, currentResponse>>
    /\ UNCHANGED <<plugins, streams, upstream, ran, execIn, execOut, facadeVars>>

ProcessMessageUnit(s) ==
    /\ pc = "message"
    /\ idx <= Len(enabledMiddleware)
    /\ LET id == enabledMiddleware[idx].id
           result == IF ScriptThrows(s) THEN {} ELSE MsgReturn(processedData, id, s)
       IN  /\ log' = Append(log, LogEntry("message", id, s, processedData, {}))
           /\ before' = processedData
           /\ processedData' = AssignData(processedData, result)
           /\ IF AfterUnit("message", ScriptThrows(s)) = "continue"
                 THEN /\ idx' = idx + 1
                      /\ UNCHANGED <<pc, escaped>>
                 ELSE /\ pc' = "failed"
                      /\ escaped' = TRUE
                      /\ UNCHANGED idx
    /\ UNCHANGED <<middleware, ctl, enabledMiddleware, currentContext,
                   currentResponse, registered>>
    /\ UNCHANGED <<plugins, streams, upstream, ran, execIn, execOut, facadeVars>>

ProcessMessageReturn ==
    /\ pc = "message"
    /\ idx > Len(enabledMiddleware)
    /\ pc' = "messageDone"
    /\ UNCHANGED <<middleware, ctl, enabledMiddleware, idx, currentContext,
                   currentResponse, processedData, registered, before, log, escaped>>
    /\ UNCHANGED <<plugins, streams, upstream, ran, execIn, execOut, facadeVars>>

\* the values of the stage variables while no stage is running
NoContext == [remote |-> Url(<<>>), method |-> <<>>, headers |-> NoHeaders]
NoResponse == Response(NullBody, NoHeaders, 0, <<>>)
NoUpstream == [response |-> NoResponse, chunks |-> <<>>]

\* no request() call in progress.  phase: "none", "called" (requestContext
\* built), "awaiting" (inner.request called), "responded", "rejected",
\* "returned"; args: the context built from the arguments; request:
\* processedRequest; sent: what inner.request was given; sends: calls of
\* inner.request made; outcome: how the latest of them settled; result: what
\* the caller of request() got
NoCall == [phase |-> "none", args |-> NoContext, request |-> NoContext,
           sent |-> NoContext, sends |-> 0, outcome |-> {}, result |-> {}]

\* no message in hand.  current: the message that entered the stage and its
\* direction; out: the deliveries made of the latest message
NoConn == [current |-> {}, out |-> <<>>]

\* the control port before any message
NoPort == [handled |-> <<>>, posted |-> <<>>]

\* a connection with nothing in flight.  flights: the processWebSocketMessage
\* calls whose handlers have not all settled; ready: the calls that resolved
\* and whose continuation has yet to run, in the order they resolved; out:
\* history, the calls made on the caller's callbacks and on the transport's
\* send and close, in order; sent, received: messages taken per direction
NoWire == [flights |-> <<>>, ready |-> <<>>, out |-> <<>>, sent |-> 0, received |-> 0]

\* a RefluxTransport just constructed.  pc: where init() is ("new", "import",
\* "innerInit", "wrappedInit", "done", "failed"); hasInit: the transport class
\* has an init method; inits: calls of the transport's init made; ready,
\* wrappedReady: the ready fields of the RefluxTransport and of the
\* MiddlewareTransport; loadDone: history, whether the plugin load had ended
\* when ready was set
NoBoot == [pc |-> "new", hasInit |-> TRUE, inits |-> 0, ready |-> FALSE,
           wrappedReady |-> FALSE, loadDone |-> FALSE]

\* a RefluxAPI just constructed over a port.  calls: the sendMessage calls, by
\* messageId; pending: the keys of pendingMessages; events: history, the
\* sends, the messages the port delivered and the timers fired, in order
NoRpc == [calls |-> <<>>, pending |-> {}, events |-> <<>>]

\* the stores with nothing in them.  code: the plugins store, name -> source
\* ({} for no such key); sites: the pluginMetadata store, name -> sites;
\* enabled: the list under the key 'enabled' of the status store; writes:
\* history, the number of writes made
NoStore == [code |-> [id \in {"p", "q"} |-> {}], sites |-> [id \in {"p", "q"} |-> {}],
            enabled |-> <<>>, writes |-> 0]

\* the stage's promise settles and its caller takes the value
Settle ==
    /\ pc \in {"requestDone", "responseDone", "messageDone", "failed"}
    /\ pc' = "idle"
    /\ enabledMiddleware' = <<>>
    /\ idx' = 1
    /\ registered' = <<>>
    /\ before' = <<>>
    /\ log' = <<>>
    /\ escaped' = FALSE
    /\ currentContext' = NoContext
    /\ currentResponse' = NoResponse
    /\ processedData' = <<>>
    /\ streams' = <<>>
    /\ upstream' = NoUpstream
    /\ ran' = <<>>
    /\ UNCHANGED <<middleware, ctl, plugins, execIn, execOut, facadeVars>>

-----------------------------------------------------------------------------
(* The pipeline with hand-registered units *)

\* new MiddlewareTransport(inner, controlPort), the transport that is managed
\* over a control port: both maps empty, the port's handler set, nothing
\* posted, no load from storage begun
Init ==
    /\ middleware = <<>>
    /\ ctl = 0
    /\ pc = "idle"
    /\ enabledMiddleware = <<>>
    /\ idx = 1
    /\ currentContext = NoContext
    /\ currentResponse = NoResponse
    /\ processedData = <<>>
    /\ registered = <<>>
    /\ before = <<>>
    /\ log = <<>>
    /\ escaped = FALSE
    /\ plugins = <<>>
    /\ streams = <<>>
    /\ upstream = NoUpstream
    /\ ran = <<>>
    /\ execIn = {}
    /\ execOut = {}
    /\ call = NoCall
    /\ conn = NoConn
    /\ store = NoStore
    /\ loads = <<>>
    /\ api = <<>>
    /\ hist = <<>>
    /\ port = NoPort
    /\ wire = NoWire
    /\ boot = NoBoot
    /\ rpc = NoRpc

-----------------------------------------------------------------------------
(* Claims about the three stages *)

CapOf(stage) ==
    CASE stage = "request" -> "onRequest"
      [] stage = "response" -> "onResponse"
      [] stage = "message" -> "modifyWebSocketMessage"

\* the unit registered under this id when the stage began
RegisteredUnit(id) == registered[IndexOfId(registered, id)]

\* the unit could take part in the stage: not disabled, and it has the capability
Eligible(u, stage) == isMiddlewareEnabled(u) = "true" /\ CapOf(stage) \in u.caps

StageDone == pc \in {"requestDone", "responseDone", "messageDone"}

\* C1: in each stage the handlers are invoked in registration order (the order
\* of this.middleware when the stage began), only units that implement the
\* stage's capability are invoked, and a disabled unit is never invoked.
C1_RegistrationOrder ==
    /\ \A i, j \in 1..Len(log) :
          i < j => /\ log[i].stage = log[j].stage
                   /\ IndexOfId(registered, log[i].id) < IndexOfId(registered, log[j].id)
    /\ \A i \in 1..Len(log) :
          /\ MapHas(registered, log[i].id)
          /\ Eligible(RegisteredUnit(log[i].id), log[i].stage)

\* two units invoked in order around a disabled unit registered between them
C1_Witness ==
    /\ StageDone
    /\ Len(log) = 2
    /\ \E k \in 1..Len(registered) :
          /\ IndexOfId(registered, log[1].id) < k
          /\ k < IndexOfId(registered, log[2].id)
          /\ registered[k].enabled = "false"
          /\ CapOf(log[1].stage) \in registered[k].caps

\* the request scripts that add the unit's header and complete
HeaderAdders == {"set", "patch", "ret"}

\* C2: a later unit's onRequest receives, and obtains from its continuation, a
\* context holding every header an earlier unit added, and the context the
\* request stage returns (the one forwarded to the transport) holds them all.
C2_LaterUnitsSeeHeaders ==
    /\ \A i, j \in 1..Len(log) :
          (i < j /\ log[i].stage = "request" /\ log[i].script \in HeaderAdders)
            => /\ log[i].id \in DOMAIN log[j].seen.headers
               /\ \A c \in log[j].got : log[i].id \in DOMAIN c.headers
    /\ pc = "requestDone" =>
          \A i \in 1..Len(log) :
              log[i].script \in HeaderAdders => log[i].id \in DOMAIN currentContext.headers

\* A patched through its continuation, B wrote in place and called its own
C2_Witness ==
    /\ pc = "requestDone"
    /\ Len(log) = 2
    /\ log[1].script = "patch"
    /\ log[2].script = "set"
    /\ log[2].got # {}
    /\ DOMAIN currentContext.headers = {log[1].id, log[2].id}

\* C3 (as claimed): a fault thrown by a unit, by one of its handlers or by
\* its enabled function, does not leave the stage, and every eligible unit
\* registered after the faulting one is still invoked.
C3_FaultIsolated ==
    /\ ~escaped
    /\ pc # "failed"
    /\ StageDone =>
          \A i \in 1..Len(log) :
              ScriptThrows(log[i].script) =>
                  \A k \in 1..Len(registered) :
                      (k > IndexOfId(registered, log[i].id)
                         /\ Eligible(registered[k], log[i].stage))
                        => \E j \in 1..Len(log) : j > i /\ log[j].id = registered[k].id

\* the value the running stage carries from unit to unit
StageValue ==
    CASE pc \in {"request", "requestDone"} -> currentContext
      [] pc \in {"response", "responseDone"} -> currentResponse
      [] pc \in {"message", "messageDone"} -> processedData

\* C4 (as claimed): after a unit threw, the stage continues with the value
\* exactly as it stood before that unit was invoked.
C4_ThrowLeavesNoTrace ==
    (pc \in {"request", "response", "message"} \cup {"requestDone", "responseDone", "messageDone"}
        /\ Len(log) > 0 /\ ScriptThrows(log[Len(log)].script))
      => StageValue = before

\* C5 (as claimed): once a request or response handler has completed without
\* calling its continuation, no later unit is invoked in that stage.
C5_NoNextHalts ==
    \A i, j \in 1..Len(log) :
        (i < j /\ log[i].stage \in {"request", "response"})
          => \/ ScriptThrows(log[i].script)
             \/ (log[i].stage = "request" /\ ScriptCallsNext(log[i].script))
             \/ (log[i].stage = "response" /\ RespCallsNext(log[i].script))

-----------------------------------------------------------------------------
(* shouldPluginRunOnSite *)

Star == "*"

Lower(c) == CASE c = "A" -> "a" [] c = "B" -> "b" [] c = "C" -> "c" [] OTHER -> c

\* one pattern character against one input character, under the i flag;
\* an unescaped dot of the site text is the regular expression's any-character
CharMatches(p, c) == p = "." \/ Lower(p) = Lower(c)

\* the pattern matches a prefix of str; a star stands for the '.*' it becomes
RECURSIVE MatchesHere(_, _)
MatchesHere(pat, str) ==
    IF pat = <<>> THEN TRUE
    ELSE IF Head(pat) = Star
        THEN \E k \in 0..Len(str) : MatchesHere(Tail(pat), SubSeq(str, k + 1, Len(str)))
        ELSE /\ str # <<>>
             /\ CharMatches(Head(pat), Head(str))
             /\ MatchesHere(Tail(pat), Tail(str))

\* new RegExp(site.replace(/\*/g, '.*'), 'i').test(str): an unanchored search
RegexTest(site, str) == \E k \in 0..Len(str) : MatchesHere(site, SubSeq(str, k + 1, Len(str)))

SiteMatches(site, url) ==
    IF Includes(site, <<Star>>)
        THEN RegexTest(site, url.hostname) \/ RegexTest(site, url.href)
        ELSE Includes(url.hostname, site) \/ Includes(url.href, site)

\* new RegExp(pattern, 'i') throws a SyntaxError on a group left open
ValidPattern(site) == \A k \in 1..Len(site) : site[k] # "("

\* plugin.sites.some(...) throws: it reaches a site with a star whose pattern
\* does not compile before any site has matched
SomeThrows(sites, url) ==
    \E k \in 1..Len(sites) :
        /\ Includes(sites[k], <<Star>>)
        /\ ~ValidPattern(sites[k])
        /\ \A j \in 1..(k - 1) : ~SiteMatches(sites[j], url)

\* plugin.sites.some(...) when no pattern it reaches throws
SomeMatches(sites, url) == \E k \in 1..Len(sites) : SiteMatches(sites[k], url)

\* mutant: no test for the bare star before the patterns are tried
shouldPluginRunOnSite_NoBareStarTest(plugin, url) ==
    IF SomeThrows(plugin.sites, url) THEN "throw"
    ELSE IF SomeMatches(plugin.sites, url) THEN "true"
    ELSE "false"

\* this.shouldPluginRunOnSite(plugin, url): how the call ends, "true" or
\* "false" for the value returned, "throw" for the SyntaxError of new RegExp
shouldPluginRunOnSite(plugin, url) ==
    IF \E k \in 1..Len(plugin.sites) : plugin.sites[k] = <<Star>> THEN "true"
    ELSE IF SomeThrows(plugin.sites, url) THEN "throw"
    ELSE IF SomeMatches(plugin.sites, url) THEN "true"
    ELSE "false"

-----------------------------------------------------------------------------
(* ReadableStream: tee, reader.read() and streamToString *)

\* an open byte stream: the chunks it has yet to yield, whether a reader or a
\* tee holds its lock, whether it errors once the chunks are out, and, for a
\* branch of a tee, the stream it was split from (0 for any other stream)
Stream(chunks, fails) == [chunks |-> chunks, locked |-> FALSE, fails |-> fails, source |-> 0]

\* a branch of a tee when it is created: nothing queued yet, fed from sid
Branch(sid) == [chunks |-> <<>>, locked |-> FALSE, fails |-> FALSE, source |-> sid]

StreamBody(sid) == [kind |-> "stream", text |-> <<>>, sid |-> sid]

\* response.body.tee(): the stream is locked by the reader the tee keeps, and
\* two branches are created, which are fed from the stream read by read
Tee(heap, sid) ==
    [heap |-> [heap EXCEPT ![sid].locked = TRUE] \o <<Branch(sid), Branch(sid)>>,
     stream1 |-> Len(heap) + 1,
     stream2 |-> Len(heap) + 2]

\* the two branches of the tee of sid while the first is being read: the
\* first is the one the reader of streamToString has locked
Branches(heap, sid) ==
    [stream1 |-> CHOOSE b \in 1..Len(heap) : heap[b].source = sid /\ heap[b].locked,
     stream2 |-> CHOOSE b \in 1..Len(heap) : heap[b].source = sid /\ ~heap[b].locked]

\* the other branch of the tee that made branch b
Sibling(heap, b) ==
    CHOOSE o \in 1..Len(heap) : o # b /\ heap[o].source = heap[b].source

\* stream.getReader() and reader.releaseLock()
GetReader(heap, sid) == [heap EXCEPT ![sid].locked = TRUE]
ReleaseLock(heap, sid) == [heap EXCEPT ![sid].locked = FALSE]

\* one reader.read() on stream sid.  ends: "chunk" with the value, "done", or
\* "error" for a read that rejects.  What the stream has queued comes first.
\* A branch of a tee with nothing queued pulls from the stream it was split
\* from: a chunk pulled is queued on the other branch as well; when that
\* stream errors both branches are errored and what the other branch had
\* queued is dropped.  (A branch that is split again has been handed on with
\* every chunk of its own source queued, so the pull looks at its queue.)
Read(heap, sid) ==
    IF heap[sid].chunks # <<>>
        THEN [ends |-> "chunk", value |-> Head(heap[sid].chunks),
              heap |-> [heap EXCEPT ![sid].chunks = Tail(@)]]
    ELSE IF heap[sid].fails
        THEN [ends |-> "error", value |-> <<>>, heap |-> heap]
    ELSE IF heap[sid].source = 0
        THEN [ends |-> "done", value |-> <<>>, heap |-> heap]
    ELSE IF heap[heap[sid].source].chunks # <<>>
        THEN [ends |-> "chunk", value |-> Head(heap[heap[sid].source].chunks),
              heap |-> [heap EXCEPT
                           ![heap[sid].source].chunks = Tail(@),
                           ![Sibling(heap, sid)].chunks =
                                Append(@, Head(heap[heap[sid].source].chunks))]]
    ELSE IF heap[heap[sid].source].fails
        THEN [ends |-> "error", value |-> <<>>,
              heap |-> [heap EXCEPT ![sid].fails = TRUE,
                                    ![Sibling(heap, sid)].fails = TRUE,
                                    ![Sibling(heap, sid)].chunks = <<>>]]
    ELSE [ends |-> "done", value |-> <<>>, heap |-> heap]

\* the loop of streamToString from some read on, chunks being the array it
\* has pushed to so far: text is the decoded whole, or {} when a read rejected
RECURSIVE ReadToEnd(_, _, _)
ReadToEnd(heap, sid, chunks) ==
    CASE Read(heap, sid).ends = "chunk" ->
            ReadToEnd(Read(heap, sid).heap, sid, Append(chunks, Read(heap, sid).value))
      [] Read(heap, sid).ends = "done" -> [heap |-> heap, text |-> {Flatten(chunks)}]
      [] Read(heap, sid).ends = "error" -> [heap |-> Read(heap, sid).heap, text |-> {}]

\* finally { reader.releaseLock() }
Released(d, sid) == [heap |-> ReleaseLock(d.heap, sid), text |-> d.text]

\* streamToString(stream), from getReader to the end
streamToString(heap, sid) == Released(ReadToEnd(GetReader(heap, sid), sid, <<>>), sid)

BlobBody(text) == [kind |-> "blob", text |-> text, sid |-> 0]

\* an ArrayBuffer holding the bytes of this text
BufferBody(text) == [kind |-> "buffer", text |-> text, sid |-> 0]

\* a truthy body of no other shape (a number, an object); text is what
\* String(body) gives
OtherBody(text) == [kind |-> "other", text |-> text, sid |-> 0]

\* bodyToString(body): text is {} for null
bodyToString(heap, body) ==
    CASE FalsyBody(body) -> [heap |-> heap, text |-> {}]
      [] body.kind = "string" -> [heap |-> heap, text |-> {body.text}]
      [] body.kind = "blob" -> [heap |-> heap, text |-> {body.text}]
      [] body.kind = "buffer" -> [heap |-> heap, text |-> {body.text}]
      [] body.kind = "stream" -> streamToString(heap, body.sid)
      [] OTHER -> [heap |-> heap, text |-> {body.text}]

-----------------------------------------------------------------------------
(* addPlugin: the unit generated from a plugin *)

PluginUnit(plugin) ==
    [id |-> plugin.name, caps |-> {"onResponse"}, enabled |-> "undefined", plugin |-> plugin,
     inMap |-> TRUE]

ContentType(headers) ==
    IF "content-type" \in DOMAIN headers THEN {headers["content-type"]} ELSE {}

\* mutant: no content-type gate
IsHtml_NoGate(headers) == TRUE

\* response.headers["content-type"]?.includes("text/html")
IsHtml(headers) == \E v \in ContentType(headers) : Includes(v, <<"text/html">>)

\* the rewritten response, or none: body is the text the unit inspected
Rewrite(response, body, ex) ==
    IF ex.returns # body
        THEN {[response EXCEPT
                 !.body = StringBody(ex.returns),
                 !.headers = Put(ex.headers, "content-length", String(JsLength(ex.returns)))]}
        ELSE {}

\* What the plugin unit's onResponse gives.  suspended: it has not come to an
\* end, it awaits a read whose result comes in a later task; threw: its
\* promise rejected, and then nothing is returned; result: the response it
\* returns; heap: the streams afterwards; headers: the headers map of
\* currentResponse afterwards (the fragment writes to that very object); ex:
\* the executePlugin call made, if any; body: the text it inspected

\* return response
Untouched(response, heap) ==
    [result |-> response, heap |-> heap, headers |-> response.headers,
     ex |-> {}, body |-> <<>>, threw |-> FALSE, suspended |-> FALSE]

\* shouldPluginRunOnSite threw, outside every try of the handler: the promise
\* of the handler rejects and nothing is returned
Rejected(response, heap) == [Untouched(response, heap) EXCEPT !.threw = TRUE]

\* the handler awaits reader.read() in streamToString, or body.text()
Awaiting(response, heap) == [Untouched(response, heap) EXCEPT !.suspended = TRUE]

\* after ex = this.executePlugin(...): the rewritten response when
\* result !== body, else the fallback of the branch
Executed(response, body, fallback, heap, ex) ==
    [result |-> IF Rewrite(response, body, ex) # {}
                    THEN The(Rewrite(response, body, ex))
                    ELSE [fallback EXCEPT !.headers = ex.headers],
     heap |-> heap, headers |-> ex.headers, ex |-> {ex}, body |-> body, threw |-> FALSE,
     suspended |-> FALSE]

\* if (body && body.includes("</head>")) { ... }, shared by both branches
Inspect(plugin, ctx, response, body, fallback, heap) ==
    IF body # <<>> /\ Includes(body, <<HeadClose>>)
        THEN Executed(response, body, fallback, heap,
                      executePlugin(plugin, body, ctx.remote.href, response.headers))
        ELSE [result |-> fallback, heap |-> heap, headers |-> response.headers,
              ex |-> {}, body |-> body, threw |-> FALSE, suspended |-> FALSE]

\* the stream branch after body = await this.streamToString(stream1), d being
\* what that call gave; a rejected read is caught by the outer catch, which
\* returns response, whose body is the stream the tee has locked
Drained(plugin, ctx, response, stream2, d) ==
    IF d.text = {}
        THEN Untouched(response, d.heap)
        ELSE Inspect(plugin, ctx, response, The(d.text),
                     [response EXCEPT !.body = StreamBody(stream2)], d.heap)

\* mutant: the branch handed on is the one that is drained
Split_HandsOnDrainedBranch(plugin, ctx, response, heap, t) ==
    Drained(plugin, ctx, response, t.stream1,
            Released(ReadToEnd(heap, t.stream1, heap[t.stream2].chunks), t.stream1))

\* the stream branch from the read that ends the loop of streamToString(stream1)
\* on: the chunks pushed so far are those the tee has queued on stream2
Split(plugin, ctx, response, heap, t) ==
    Drained(plugin, ctx, response, t.stream2,
            Released(ReadToEnd(heap, t.stream1, heap[t.stream2].chunks), t.stream1))

\* the other branch after body = await this.bodyToString(response.body)
Decoded(plugin, ctx, response, d) ==
    IF d.text = {} THEN Untouched(response, d.heap)
    ELSE Inspect(plugin, ctx, response, The(d.text), response, d.heap)

\* the plugin unit's onResponse, given what next() returned, up to its end or
\* to the first await of a result that comes in a later task: the first
\* reader.read() of streamToString(stream1), or body.text() of a Blob
PluginOnResponse(plugin, ctx, response, heap) ==
    IF shouldPluginRunOnSite(plugin, ctx.remote) = "throw"
        THEN Rejected(response, heap)
    ELSE IF ~(shouldPluginRunOnSite(plugin, ctx.remote) = "true" /\ IsHtml(response.headers))
        THEN Untouched(response, heap)
    ELSE IF response.body.kind = "stream"
        THEN IF heap[response.body.sid].locked
                THEN Untouched(response, heap)     \* tee() throws: catch, return response
                ELSE Awaiting(response,
                              GetReader(Tee(heap, response.body.sid).heap,
                                        Tee(heap, response.body.sid).stream1))
    ELSE IF response.body.kind = "blob"
        THEN Awaiting(response, heap)
    ELSE Decoded(plugin, ctx, response, bodyToString(heap, response.body))

\* the rest of the plugin unit's onResponse once the awaited result is there:
\* the read that ends the loop of streamToString, or the text of the Blob
PluginOnResponseResumed(plugin, ctx, response, heap) ==
    IF response.body.kind = "stream"
        THEN Split(plugin, ctx, response, heap, Branches(heap, response.body.sid))
        ELSE Decoded(plugin, ctx, response, bodyToString(heap, response.body))

-----
(* Control port (setupControlPort): registry operations *)

\* the data of a response: { success: true }, { error }, or a list
Success == [kind |-> "success", items |-> <<>>]
Failure == [kind |-> "error", items |-> <<>>]
Listing(items) == [kind |-> "list", items |-> items]

\* sendResponse(messageId, data)
PortResponse(messageId, data) == [type |-> "response", messageId |-> messageId, data |-> data]

\* the unit whose turn it is has been invoked and awaits a result that comes
\* in a later task: a read of the stream it split, or the text of a Blob
Suspended == pc = "suspended"

\* controlPort.onmessage is a task of its own and has no guard: it runs when
\* no stage is running, and while a stage is suspended on a task.  The
\* handlers scripted here await nothing but their continuation, and a plugin
\* unit over a string awaits promises that are already settled, so those run
\* to the end of the stage in one chain of microtasks; a plugin unit over a
\* stream waits for each chunk, one over a Blob for its text.  ctl counts the
\* messages handled; the caller numbers its messages, the number is the
\* messageId
Ctl == (pc = "idle" \/ Suspended) /\ ctl < MaxCtl /\ ctl' = ctl + 1

\* this.sendResponse(message.messageId, { success: true })
Acknowledged ==
    port' = [port EXCEPT !.posted = Append(@, PortResponse(ctl + 1, Success))]

TrafficUnchanged ==
    UNCHANGED <<pc, idx, currentContext, currentResponse,
                processedData, registered, before, log, escaped,
                streams, upstream, ran, execIn, execOut,
                call, conn, store, loads, api, hist, wire, boot, rpc>>

\* the array of a running stage after the map's entry under id was set to
\* another object or deleted: the unit it has under that id is no longer the
\* map's
Replaced(units, id) ==
    [k \in 1..Len(units) |->
        IF units[k].id = id THEN [units[k] EXCEPT !.inMap = FALSE] ELSE units[k]]

\* case 'addMiddleware': this.middleware.set(message.middleware.id,
\* message.middleware), then the response
AddMiddleware(id, caps, enabled) ==
    /\ Ctl
    /\ middleware' = MapSet(middleware, id, Unit(id, caps, enabled))
    /\ enabledMiddleware' = Replaced(enabledMiddleware, id)
    /\ Acknowledged
    /\ TrafficUnchanged
    /\ UNCHANGED plugins

\* case 'removeMiddleware': if (message.id) this.middleware.delete(message.id),
\* then the response; the ids sent are not the empty string
RemoveMiddleware(id) ==
    /\ Ctl
    /\ middleware' = MapDelete(middleware, id)
    /\ enabledMiddleware' = Replaced(enabledMiddleware, id)
    /\ Acknowledged
    /\ TrafficUnchanged
    /\ UNCHANGED plugins

\* middleware.enabled = enabled on the unit object the map holds under id:
\* the array of a running stage shows the new value where it holds that very
\* object
WithEnabled(units, id, enabled) ==
    [k \in 1..Len(units) |->
        IF units[k].id = id /\ units[k].inMap
            THEN [units[k] EXCEPT !.enabled = enabled]
            ELSE units[k]]

\* case 'setMiddlewareEnabled': if the map has the id,
\* middleware.enabled = message.enabled, then the response; otherwise the
\* message is taken, nothing is done and nothing is posted
SetMiddlewareEnabled(id, enabled) ==
    /\ Ctl
    /\ IF MapHas(middleware, id)
           THEN /\ middleware' =
                      [middleware EXCEPT ![IndexOfId(middleware, id)].enabled = enabled]
                /\ enabledMiddleware' = WithEnabled(enabledMiddleware, id, enabled)
                /\ Acknowledged
           ELSE UNCHANGED <<middleware, enabledMiddleware, port>>
    /\ TrafficUnchanged
    /\ UNCHANGED plugins

\* case 'addPlugin': this.plugins.set(name, plugin); this.middleware.set(name, unit),
\* then the response
AddPlugin(plugin) ==
    /\ Ctl
    /\ plugins' = MapSet(plugins, plugin.name, [id |-> plugin.name, plugin |-> plugin])
    /\ middleware' = MapSet(middleware, plugin.name, PluginUnit(plugin))
    /\ enabledMiddleware' = Replaced(enabledMiddleware, plugin.name)
    /\ Acknowledged
    /\ TrafficUnchanged

\* case 'removePlugin': this.plugins.delete(id); this.middleware.delete(id),
\* then the response
RemovePlugin(name) ==
    /\ Ctl
    /\ plugins' = MapDelete(plugins, name)
    /\ middleware' = MapDelete(middleware, name)
    /\ enabledMiddleware' = Replaced(enabledMiddleware, name)
    /\ Acknowledged
    /\ TrafficUnchanged

\* the plugin unit's handler has come to its end: if (result) currentResponse
\* = { ...merged }, or the catch of the loop when it threw, and the loop goes on
PluginUnitReturns(mw, response, out) ==
    /\ log' = Append(log, LogEntry("response", mw.id, "plugin", currentResponse, {response}))
    /\ before' = currentResponse
    /\ streams' = out.heap
    /\ ran' = ran \o [k \in 1..Cardinality(out.ex) |->
                          [id |-> mw.id, body |-> out.body,
                           returns |-> The(out.ex).returns,
                           calls |-> The(out.ex).calls,
                           fault |-> The(out.ex).fault]]
    /\ currentResponse' =
          IF out.threw
              THEN currentResponse     \* catch (error): nothing is assigned
              ELSE AssignResponse([currentResponse EXCEPT !.headers = out.headers],
                                  {Partial(out.result)})
    /\ idx' = idx + 1
    /\ pc' = "response"

\* the loop body of processResponseMiddleware for a unit generated from a
\* plugin: the handler is invoked and runs to its end, or to the await of a
\* result that comes in a later task
ProcessResponsePluginUnit ==
    /\ pc = "response"
    /\ idx <= Len(enabledMiddleware)
    /\ enabledMiddleware[idx].plugin # NoPlugin
    /\ \E mw \in {enabledMiddleware[idx]} :
       \E response \in {NextResponse(currentResponse, {})} :
       \E out \in {PluginOnResponse(mw.plugin, currentContext, response, streams)} :
           IF out.suspended
               THEN /\ pc' = "suspended"
                    /\ streams' = out.heap
                    /\ UNCHANGED <<log, before, ran, currentResponse, idx>>
               ELSE PluginUnitReturns(mw, response, out)
    /\ UNCHANGED <<middleware, ctl, enabledMiddleware, currentContext, processedData,
                   registered, escaped, plugins, upstream, execIn, execOut, facadeVars>>

\* a reader.read() of streamToString(stream1) resolves with a chunk, which is
\* pushed, and the next read is awaited
ProcessResponsePluginRead ==
    /\ pc = "suspended"
    /\ currentResponse.body.kind = "stream"
    /\ \E r \in {Read(streams, Branches(streams, currentResponse.body.sid).stream1)} :
           /\ r.ends = "chunk"
           /\ streams' = r.heap
    /\ UNCHANGED <<middleware, ctl, pc, enabledMiddleware, idx, currentContext,
                   currentResponse, processedData, registered, before, log, escaped,
                   plugins, upstream, ran, execIn, execOut, facadeVars>>

\* the result the suspended handler awaits last is there (the read that ends
\* the loop of streamToString, or the text of the Blob) and the handler runs
\* to its end
ProcessResponsePluginResume ==
    /\ pc = "suspended"
    /\ currentResponse.body.kind = "stream" =>
          Read(streams, Branches(streams, currentResponse.body.sid).stream1).ends # "chunk"
    /\ \E mw \in {enabledMiddleware[idx]} :
       \E response \in {NextResponse(currentResponse, {})} :
       \E out \in {PluginOnResponseResumed(mw.plugin, currentContext, response, streams)} :
           PluginUnitReturns(mw, response, out)
    /\ UNCHANGED <<middleware, ctl, enabledMiddleware, currentContext, processedData,
                   registered, escaped, plugins, upstream, execIn, execOut, facadeVars>>

-----------------------------------------------------------------------------
(* The pipeline with hand-registered units: the steps *)

\* the enabled fields of the units a caller registers
EnabledValues == {"undefined", "false", "fnTrue", "fnFalse", "fnThrows"}

Next ==
    \/ \E id \in UnitIds, caps \in CapSets, e \in EnabledValues :
            AddMiddleware(id, caps, e)
    \/ \E id \in UnitIds : RemoveMiddleware(id)
    \/ \E id \in UnitIds, e \in {"true", "false"} : SetMiddlewareEnabled(id, e)
    \/ \E ctx \in InitialContexts : ProcessRequestStart(ctx)
    \/ \E s \in ReqScripts : ProcessRequestUnit(s)
    \/ ProcessRequestReturn
    \/ \E ctx \in {Context(Url(HostA), NoHeaders)}, r \in InitialResponses :
            ProcessResponseStart(ctx, r, <<>>)
    \/ \E s \in RespScripts : ProcessResponseUnit(s)
    \/ ProcessResponseReturn
    \/ \E d \in Messages, dir \in Directions : ProcessMessageStart(d, dir)
    \/ \E s \in MsgScripts : ProcessMessageUnit(s)
    \/ ProcessMessageReturn
    \/ Settle

Spec == Init /\ [][Next]_vars

-----------------------------------------------------------------------------
(* The response stage with units generated from plugins *)

PluginNames == {"p", "q"}

SiteLists == { << <<Star>> >>, << HostB >> }

PluginSources ==
    { <<"return body+'!';">>,
      <<"return '';">>,
      <<"return body;">>,
      <<"x=1;">>,
      <<"return 42;">>,
      <<"throw 0;">>,
      <<"}">>,
      <<BrowserOpen, " ", "document.title='P';", " ", BrowserClose>>,
      <<BrowserOpen, "document.title='P';", BrowserClose, " ", "throw 0;">>,
      <<BrowserOpen, "document.title='P';", BrowserClose, "return body+'!';">> }

\* plugin p under every source, plugin q under a few; each on every site or
\* on one host, and q once more under a pattern that does not compile
Plugins ==
    { [name |-> "p", sites |-> << <<Star>> >>, function |-> f] : f \in PluginSources }
    \cup
    { [name |-> "p", sites |-> << HostB >>, function |-> f] :
        f \in { <<"return body+'!';">>, <<"throw 0;">> } }
    \cup
    { [name |-> "q", sites |-> st, function |-> f] :
        st \in SiteLists,
        f \in { <<"return body+'!';">>, <<"return body;">> } }
    \cup
    { [name |-> "q", sites |-> << <<"(", Star>> >>, function |-> <<"return body+'!';">>] }

Html == <<"<html>", "<head>", HeadClose, "<body>">>

HeaderMaps ==
    { [k \in {"content-type"} |-> <<"text/html">>],
      [k \in {"content-type"} |-> <<"text/html", "; charset=utf-8">>],
      [k \in {"Content-Type"} |-> <<"text/html">>],
      [k \in {"content-type"} |-> <<"application/json">>],
      NoHeaders }

\* a response of the underlying transport with the streams it brings
Upstreams ==
    { [response |-> Response(b, h, 200, <<"OK">>), heap |-> <<>>] :
        b \in {StringBody(Html), StringBody(<<"<body>">>), StringBody(<<>>),
                BlobBody(Html), NullBody},
        h \in HeaderMaps }
    \cup
    { [response |-> Response(b, [k \in {"content-type"} |-> <<"text/html">>], 200, <<"OK">>),
       heap |-> <<>>] :
        b \in {BufferBody(Html), BufferBody(<<>>), OtherBody(<<"42">>)} }
    \cup
    { [response |-> Response(StreamBody(1), h, 200, <<"OK">>),
       heap |-> <<Stream(c, f)>>] :
        c \in { << <<"<html>", "<head>">>, <<HeadClose, "<body>">> >>, << <<"<body>">> >> },
        f \in BOOLEAN,
        h \in HeaderMaps }

\* the plugins a caller adds while a stage is suspended
PluginsMeanwhile ==
    { [name |-> "q", sites |-> << <<Star>> >>, function |-> <<"return body+'!';">>] }

PluginNext ==
    \/ \E plugin \in Plugins : (Suspended => plugin \in PluginsMeanwhile) /\ AddPlugin(plugin)
    \/ \E name \in PluginNames : RemovePlugin(name)
    \/ \E host \in {HostA, HostB}, u \in Upstreams :
            ProcessResponseStart(Context(Url(host), NoHeaders), u.response, u.heap)
    \/ ProcessResponsePluginUnit
    \/ ProcessResponsePluginRead
    \/ ProcessResponsePluginResume
    \/ ProcessResponseReturn
    \/ Settle

PluginSpec == Init /\ [][PluginNext]_vars

-----------------------------------------------------------------------------
(* Claims about the units generated from plugins *)

InResponseStage == pc \in {"response", "responseDone"}

\* the delivery-time fragment of a plugin, trimmed
FragmentOf(plugin) == Trim(ServerSideCode(plugin))

\* what a caller reading this body gets: the text, or {} when the body cannot
\* be read to its end (null, or a stream that is locked or errors)
Readable(body, heap) ==
    CASE body.kind \in {"string", "blob", "buffer", "other"} -> {body.text}
      [] body.kind = "stream" ->
            IF heap[body.sid].locked \/ heap[body.sid].fails
                THEN {} ELSE {Flatten(heap[body.sid].chunks)}
      [] OTHER -> {}

LastRan == ran[Len(ran)]

\* the latest unit invoked is the one that made the latest executePlugin call
LastUnitRan == Len(ran) > 0 /\ Len(log) > 0 /\ LastRan.id = log[Len(log)].id

\* C6 (as claimed): when the delivery-time fragment of a plugin failed to
\* compile or threw, the response after that plugin's unit has the body,
\* headers, status and status text it had before the unit ran.
C6_FaultLeavesResponse ==
    (InResponseStage /\ LastUnitRan /\ LastRan.fault # "none")
      => /\ Readable(currentResponse.body, streams) = {LastRan.body}
         /\ currentResponse.headers = before.headers
         /\ currentResponse.status = before.status
         /\ currentResponse.statusText = before.statusText

\* the header content-type holds text/html
HasHtmlMarker(headers) ==
    "content-type" \in DOMAIN headers /\ Includes(headers["content-type"], <<"text/html">>)

\* C7: when the content-type header of the transport's response lacks text/html
\* (a header spelled Content-Type is not consulted, so such a response counts
\* here as well), the body stays the body the transport returned, a stream
\* unread and unlocked, and no plugin is executed, whatever plugins are
\* registered.
C7_NonHtmlUntouched ==
    (InResponseStage /\ ~HasHtmlMarker(upstream.response.headers))
      => /\ currentResponse.body = upstream.response.body
         /\ ran = <<>>
         /\ currentResponse.body.kind = "stream" =>
               /\ ~streams[currentResponse.body.sid].locked
               /\ streams[currentResponse.body.sid].chunks = upstream.chunks

\* a rewriting plugin whose site matches met a JSON response holding </head>
C7_Witness ==
    /\ pc = "responseDone"
    /\ Len(log) >= 1
    /\ \E i \in 1..Len(registered) :
          /\ registered[i].plugin.function = <<"return body+'!';">>
          /\ shouldPluginRunOnSite(registered[i].plugin, currentContext.remote) = "true"
    /\ upstream.response.headers = [k \in {"content-type"} |-> <<"application/json">>]
    /\ upstream.response.body = StringBody(Html)
    /\ currentResponse.body = StringBody(Html)

\* the unit of log entry i went through the gates and met a stream body that
\* no earlier unit of the stage had split: it split the stream and read the
\* inspection branch, to its end or to the error of the stream
InspectedStream(i) ==
    /\ log[i].script = "plugin"
    /\ shouldPluginRunOnSite(RegisteredUnit(log[i].id).plugin, currentContext.remote) = "true"
    /\ IsHtml(log[i].seen.headers)
    /\ log[i].seen.body.kind = "stream"
    /\ \A j \in 1..(i - 1) : log[j].seen.body # log[i].seen.body

\* no plugin execution so far produced a string other than the inspected text
NoRewrite == \A k \in 1..Len(ran) : ran[k].returns = ran[k].body

\* C8 (as claimed): once a plugin unit has inspected an open stream body
\* without rewriting it, the stream was split before any read: the body is a
\* branch of the split and not the stream that was split (which the tee has
\* locked), reading the inspection branch left the redelivery branch whole,
\* and the body is that branch, unlocked, yielding the chunk sequence of the
\* original stream.
C8_RedeliveryBranchIntact ==
    (/\ InResponseStage
     /\ upstream.response.body.kind = "stream"
     /\ NoRewrite
     /\ \E i \in 1..Len(log) : InspectedStream(i))
      => /\ currentResponse.body.kind = "stream"
         /\ LET orig == upstream.response.body.sid
                sid == currentResponse.body.sid
            IN  /\ sid # orig
                /\ streams[orig].locked
                /\ ~streams[sid].locked
                /\ streams[sid].chunks = upstream.chunks
                /\ \E b \in 1..Len(streams) :
                      b # sid /\ b # orig /\ streams[b].chunks = <<>>

\* C9 (as claimed): when a plugin unit rewrote the body, the response returned
\* has a content-length header equal to the length of the body it carries.
C9_ContentLengthMatches ==
    (pc = "responseDone" /\ \E k \in 1..Len(ran) : ran[k].returns # ran[k].body)
      => /\ currentResponse.body.kind = "string"
         /\ "content-length" \in DOMAIN currentResponse.headers
         /\ currentResponse.headers["content-length"]
              = String(JsLength(currentResponse.body.text))

LastLog == log[Len(log)]

\* an earlier unit of this stage split the stream the latest unit was given,
\* so that the latest unit got it locked
LockedWhenSeen ==
    \E j \in 1..(Len(log) - 1) :
        /\ log[j].seen.body = LastLog.seen.body
        /\ shouldPluginRunOnSite(RegisteredUnit(log[j].id).plugin, currentContext.remote) = "true"
        /\ IsHtml(log[j].seen.headers)

\* the text of the body the latest unit was given: {} when it has none (null),
\* the stream errors before its end, or the stream was locked already.  A
\* stream body met by a unit holds the chunks of the transport's stream, any
\* rewrite having made it a string.
SeenText ==
    CASE LastLog.seen.body.kind \in {"string", "blob", "buffer", "other"} ->
            {LastLog.seen.body.text}
      [] LastLog.seen.body.kind = "stream" ->
            IF streams[LastLog.seen.body.sid].fails \/ LockedWhenSeen
                THEN {} ELSE {Flatten(upstream.chunks)}
      [] OTHER -> {}

\* the latest unit invoked came from a plugin and met an eligible response
\* (matching site, HTML content-type) whose body text lacks </head>
EligibleWithoutAnchor ==
    /\ InResponseStage
    /\ Len(log) > 0
    /\ LastLog.script = "plugin"
    /\ shouldPluginRunOnSite(RegisteredUnit(LastLog.id).plugin, currentContext.remote) = "true"
    /\ IsHtml(LastLog.seen.headers)
    /\ SeenText # {}
    /\ ~Includes(The(SeenText), <<HeadClose>>)

\* C11 (as claimed): on an eligible response whose body lacks </head> the
\* delivery-time fragment is still executed against the unmodified body, and
\* the body after the unit is what executePlugin gives for that body.
C11_FragmentRunsWithoutAnchor ==
    EligibleWithoutAnchor =>
        LET plugin == RegisteredUnit(LastLog.id).plugin
        IN  /\ FragmentOf(plugin) # <<>> /\ Compiles(ServerSideCode(plugin))
                => /\ LastUnitRan
                   /\ LastRan.calls = <<The(SeenText)>>
            /\ Readable(currentResponse.body, streams)
                 = {executePlugin(plugin, The(SeenText), currentContext.remote.href,
                                  LastLog.seen.headers).returns}

\* the source holds a content-execution region and nothing else but blanks
RegionOnly(plugin) ==
    BrowserCodeMatch(plugin.function) # {} /\ FragmentOf(plugin) = <<>>

\* C12: a plugin whose source is only a content-execution region, on an
\* eligible response whose body lacks </head>: the body after the unit reads
\* as the body before it, headers, status and status text are those before
\* it, and there is no fault (none recorded, none escaping the stage).
C12_RegionOnlyWithoutAnchor ==
    (EligibleWithoutAnchor /\ RegionOnly(RegisteredUnit(LastLog.id).plugin))
      => /\ Readable(currentResponse.body, streams) = SeenText
         /\ currentResponse.headers = before.headers
         /\ currentResponse.status = before.status
         /\ currentResponse.statusText = before.statusText
         /\ \A k \in 1..Len(ran) : ran[k].id = LastLog.id => ran[k].fault = "none"
         /\ ~escaped

\* a region-only plugin met a stream of HTML without </head> and the stage ended
C12_Witness ==
    /\ pc = "responseDone"
    /\ EligibleWithoutAnchor
    /\ RegionOnly(RegisteredUnit(LastLog.id).plugin)
    /\ upstream.response.body.kind = "stream"
    /\ currentResponse.body.kind = "stream"
    /\ The(SeenText) = <<"<body>">>

\* a header whose key is content-type in some letter case holds text/html
HtmlUnderAnyCase(headers) ==
    \E k \in DOMAIN headers :
        k \in {"content-type", "Content-Type"} /\ Includes(headers[k], <<"text/html">>)

\* C16 (as claimed): the content-type gate takes the header key in any letter
\* case: on a matching site, a response whose content-type header, however
\* its key is written, holds text/html and whose body holds </head> has the
\* plugin executed on that body.
C16_GateIgnoresKeyCase ==
    (/\ InResponseStage
     /\ Len(log) > 0
     /\ LastLog.script = "plugin"
     /\ shouldPluginRunOnSite(RegisteredUnit(LastLog.id).plugin, currentContext.remote) = "true"
     /\ HtmlUnderAnyCase(LastLog.seen.headers)
     /\ SeenText # {}
     /\ Includes(The(SeenText), <<HeadClose>>))
      => /\ LastUnitRan
         /\ LastRan.body = The(SeenText)

-----------------------------------------------------------------------------
(* executePlugin on its own *)

ExecSources ==
    PluginSources \cup
    { <<" ">>,
      <<"headers.p='1';", "return 'X';">>,
      <<BrowserOpen, "document.title='P';", BrowserClose, "}">>,
      <<"x=1;", BrowserOpen, "$&", BrowserClose, "return body;">>,
      <<BrowserOpen, "$'", BrowserClose>>,
      <<BrowserOpen, DollarBacktick, "$", "&", BrowserClose, "return body;">>,
      <<BrowserOpen, BrowserClose, BrowserOpen, "document.title='P';", BrowserClose>> }

ExecBodies == { Html, <<"<body>">>, <<HeadClose, HeadClose>>, <<>> }

ExecInputs ==
    { [plugin |-> [name |-> n, sites |-> << <<Star>> >>, function |-> f],
       body |-> b, url |-> Url(HostA).href, headers |-> h] :
        n \in PluginNames, f \in ExecSources, b \in ExecBodies,
        h \in {NoHeaders, [k \in {"content-type"} |-> <<"text/html">>]} }

ExecInit ==
    /\ middleware = <<>>
    /\ ctl = 0
    /\ pc = "idle"
    /\ enabledMiddleware = <<>>
    /\ idx = 1
    /\ currentContext = NoContext
    /\ currentResponse = NoResponse
    /\ processedData = <<>>
    /\ registered = <<>>
    /\ before = <<>>
    /\ log = <<>>
    /\ escaped = FALSE
    /\ plugins = <<>>
    /\ streams = <<>>
    /\ upstream = NoUpstream
    /\ ran = <<>>
    /\ \E i \in ExecInputs : execIn = {i}
    /\ execOut = {}
    /\ call = NoCall
    /\ conn = NoConn
    /\ store = NoStore
    /\ loads = <<>>
    /\ api = <<>>
    /\ hist = <<>>
    /\ port = NoPort
    /\ wire = NoWire
    /\ boot = NoBoot
    /\ rpc = NoRpc

\* one call this.executePlugin(plugin, body, url, headers)
Execute ==
    /\ execIn # {}
    /\ execOut = {}
    /\ execOut' = {executePlugin(The(execIn).plugin, The(execIn).body,
                                 The(execIn).url, The(execIn).headers)}
    /\ UNCHANGED <<middleware, ctl, pc, enabledMiddleware, idx, currentContext,
                   currentResponse, processedData, registered, before, log, escaped,
                   plugins, streams, upstream, ran, execIn, facadeVars>>

ExecNext == Execute

ExecSpec == ExecInit /\ [][ExecNext]_vars

\* the delivery-time fragment of the call in execIn, the body it is given,
\* and how a call of it ends
Fragment == ServerSideCode(The(execIn).plugin)
PostInjection == InjectedBody(The(execIn).plugin, The(execIn).body, The(execIn).url)
FragmentRun == RunStatements(Fragment, PostInjection, The(execIn).headers)
FragmentRunnable == Trim(Fragment) # <<>> /\ Compiles(Fragment)

\* C10 (as claimed): executePlugin invokes the delivery-time fragment exactly
\* once, with the post-injection body; it returns the string the fragment
\* returns, and the post-injection body for any other outcome.
C10_InvokedExactlyOnce ==
    execOut # {} =>
        /\ The(execOut).calls = <<PostInjection>>
        /\ The(execOut).returns =
              IF FragmentRun.ends = "string" THEN FragmentRun.value ELSE PostInjection

\* C10 (amended): the fragment is invoked once with the post-injection body
\* when it is not blank and compiles, and not at all otherwise; executePlugin
\* returns the string an invoked fragment returned, and the post-injection
\* body in every other case (no invocation, a throw, a value not a string).
C10_InvokedOnceWhenRunnable ==
    execOut # {} =>
        /\ The(execOut).calls = IF FragmentRunnable THEN <<PostInjection>> ELSE <<>>
        /\ The(execOut).returns =
              IF FragmentRunnable /\ FragmentRun.ends = "string"
                  THEN FragmentRun.value ELSE PostInjection

\* a fragment ran on a body that took an injection and returned no string
C10_Witness ==
    /\ execOut # {}
    /\ BrowserCodeMatch(The(execIn).plugin.function) # {}
    /\ PostInjection # The(execIn).body
    /\ Len(The(execOut).calls) = 1
    /\ The(execOut).fault = "runtime"
    /\ The(execOut).returns = PostInjection

\* text put before position at of s (at = 0: s has no such position)
InsertBefore(s, at, text) ==
    IF at = 0 THEN s ELSE SubSeq(s, 1, at - 1) \o text \o SubSeq(s, at, Len(s))

\* the positions of the first marker-delimited region of src: from the first
\* opening marker that has a closing marker after it, to the first closing
\* marker after that one
FirstRegion(src) ==
    LET opens == {i \in 1..Len(src) : src[i] = BrowserOpen
                     /\ \E j \in (i + 1)..Len(src) : src[j] = BrowserClose}
        from == CHOOSE i \in opens : \A k \in opens : i <= k
        closes == {j \in (from + 1)..Len(src) : src[j] = BrowserClose}
    IN  IF opens = {} THEN {}
        ELSE {[from |-> from, to |-> CHOOSE j \in closes : \A k \in closes : j <= k]}

\* C13 (as claimed): a source is split on its first region only.  With a
\* region, the post-injection body is the body with that region's code,
\* wrapped in the script element, put once before the first </head> (the body
\* itself when it has none), and the fragment is the source without exactly
\* that region.  Without a region nothing is injected and the fragment is the
\* whole source.
C13_SplitOnFirstRegion ==
    execOut # {} =>
        LET src == The(execIn).plugin.function
            body == The(execIn).body
            region == FirstRegion(src)
        IN  IF region = {}
                THEN /\ PostInjection = body
                     /\ Fragment = src
                ELSE LET r == The(region)
                         code == Trim(SubSeq(src, r.from + 1, r.to - 1))
                     IN  /\ PostInjection =
                               InsertBefore(body, IndexOf(body, <<HeadClose>>),
                                   ScriptTag(The(execIn).url, The(execIn).plugin.name, code))
                         /\ Fragment = SubSeq(src, 1, r.from - 1)
                                         \o SubSeq(src, r.to + 1, Len(src))
                         /\ The(execOut).calls # <<>>
                               => The(execOut).calls = <<PostInjection>>

-----------------------------------------------------------------------------
(* shouldPluginRunOnSite on its own *)

\* site patterns: the bare star, texts without a star, texts with one
MatchPatterns ==
    { <<Star>>, <<"a">>, <<".", "c">>, <<"c", "/">>, <<"z">>, <<"A">>,
      <<"b", Star>>, <<"B", Star, "c">>, <<"z", Star>>, <<"(", Star>> }

MatchSiteLists ==
    { <<p>> : p \in MatchPatterns } \cup { <<p, q>> : p, q \in MatchPatterns }

MatchUrls ==
    { Url(HostA), Url(HostB),
      [hostname |-> HostA, href |-> <<"x", ":">> \o HostA \o <<"/", "A">>] }

MatchInputs ==
    { [plugin |-> [name |-> "p", sites |-> st, function |-> <<"x=1;">>], url |-> u] :
        st \in MatchSiteLists, u \in MatchUrls }

MatchInit ==
    /\ middleware = <<>>
    /\ ctl = 0
    /\ pc = "idle"
    /\ enabledMiddleware = <<>>
    /\ idx = 1
    /\ currentContext = NoContext
    /\ currentResponse = NoResponse
    /\ processedData = <<>>
    /\ registered = <<>>
    /\ before = <<>>
    /\ log = <<>>
    /\ escaped = FALSE
    /\ plugins = <<>>
    /\ streams = <<>>
    /\ upstream = NoUpstream
    /\ ran = <<>>
    /\ \E i \in MatchInputs : execIn = {i}
    /\ execOut = {}
    /\ call = NoCall
    /\ conn = NoConn
    /\ store = NoStore
    /\ loads = <<>>
    /\ api = <<>>
    /\ hist = <<>>
    /\ port = NoPort
    /\ wire = NoWire
    /\ boot = NoBoot
    /\ rpc = NoRpc

\* one call this.shouldPluginRunOnSite(plugin, url)
Match ==
    /\ execIn # {}
    /\ execOut = {}
    /\ execOut' = {shouldPluginRunOnSite(The(execIn).plugin, The(execIn).url)}
    /\ UNCHANGED <<middleware, ctl, pc, enabledMiddleware, idx, currentContext,
                   currentResponse, processedData, registered, before, log, escaped,
                   plugins, streams, upstream, ran, execIn, facadeVars>>

MatchNext == Match

MatchSpec == MatchInit /\ [][MatchNext]_vars

MatchSites == The(execIn).plugin.sites

HasBareStar == \E k \in 1..Len(MatchSites) : MatchSites[k] = <<Star>>

\* C14: when the scope list holds the bare star, the matcher returns true for
\* every target, whatever else the list holds and wherever the star stands.
C14_BareStarMatchesAll ==
    (execOut # {} /\ HasBareStar) => The(execOut) = "true"

\* the star stands after a pattern that matches nothing and does not compile
C14_Witness ==
    /\ execOut = {"true"}
    /\ MatchSites = << <<"(", Star>>, <<Star>> >>

\* sub occurs in s as a run of consecutive characters
Occurs(sub, s) ==
    \E i \in 0..(Len(s) - Len(sub)) : SubSeq(s, i + 1, i + Len(sub)) = sub

\* a pattern matches the target: without a star, when it occurs in the
\* hostname or in the full address; with a star, when its regular expression
\* finds a match in one of them
PatternMatches(site, url) ==
    IF \E k \in 1..Len(site) : site[k] = Star
        THEN RegexTest(site, url.hostname) \/ RegexTest(site, url.href)
        ELSE Occurs(site, url.hostname) \/ Occurs(site, url.href)

\* C15 (as claimed): for a scope list without the bare star the matcher
\* returns, and it returns true exactly when some pattern matches the target.
C15_TrueIffSomePatternMatches ==
    (execOut # {} /\ ~HasBareStar) =>
        /\ The(execOut) \in {"true", "false"}
        /\ The(execOut) = "true"
             <=> \E k \in 1..Len(MatchSites) : PatternMatches(MatchSites[k], The(execIn).url)

-----------------------------------------------------------------------------
(* request(): the two stages around the underlying transport's request *)

\* requestContext = { remote, method, body, headers, signal }
RequestEnter(ctx) ==
    /\ pc = "idle"
    /\ call.phase = "none"
    /\ call' = [NoCall EXCEPT !.phase = "called", !.args = ctx]
    /\ UNCHANGED <<middleware, ctl, pc, enabledMiddleware, idx, currentContext,
                   currentResponse, processedData, registered, before, log, escaped,
                   plugins, streams, upstream, ran, execIn, execOut, conn, store, loads, api, hist, port, wire, boot, rpc>>

\* mutant: the transport is given the arguments of request() as they came
InnerArguments_AsGiven(args, processedRequest) == args

\* this.inner.request(processedRequest.remote, processedRequest.method, ...)
InnerArguments(args, processedRequest) == processedRequest

\* processedRequest = await this.processRequestMiddleware(requestContext),
\* then the call this.inner.request(...)
InnerRequestCall ==
    /\ pc = "requestDone"
    /\ call.phase = "called"
    /\ call' = [call EXCEPT !.phase = "awaiting",
                            !.request = currentContext,
                            !.sent = InnerArguments(call.args, currentContext),
                            !.sends = call.sends + 1]
    /\ UNCHANGED <<middleware, ctl, pc, enabledMiddleware, idx, currentContext,
                   currentResponse, processedData, registered, before, log, escaped,
                   plugins, streams, upstream, ran, execIn, execOut, conn, store, loads, api, hist, port, wire, boot, rpc>>

\* mutant: a rejected transport call is made again
InnerRejected_Retries(c, error) ==
    [c EXCEPT !.phase = "awaiting", !.sends = c.sends + 1,
              !.outcome = {[ok |-> FALSE, response |-> NoResponse, error |-> error]}]

\* await this.inner.request(...) rejects: request() has no catch around it,
\* so its own promise rejects with that error
InnerRejected(c, error) ==
    [c EXCEPT !.phase = "rejected",
              !.outcome = {[ok |-> FALSE, response |-> NoResponse, error |-> error]},
              !.result = {[ok |-> FALSE, response |-> NoResponse, error |-> error]}]

\* response = await this.inner.request(...)
InnerResolved(c, response) ==
    [c EXCEPT !.phase = "responded",
              !.outcome = {[ok |-> TRUE, response |-> response, error |-> ""]}]

InnerErrors == {"TypeError", "AbortError"}

\* the transport's promise settles
InnerRequestSettles ==
    /\ pc = "idle"
    /\ call.phase = "awaiting"
    /\ \/ \E r \in InitialResponses : call' = InnerResolved(call, r)
       \/ \E e \in InnerErrors : call' = InnerRejected(call, e)
    /\ UNCHANGED <<middleware, ctl, pc, enabledMiddleware, idx, currentContext,
                   currentResponse, processedData, registered, before, log, escaped,
                   plugins, streams, upstream, ran, execIn, execOut, conn, store, loads, api, hist, port, wire, boot, rpc>>

\* processedResponse = await this.processResponseMiddleware(...); return it
RequestReturn ==
    /\ pc = "responseDone"
    /\ call.phase = "responded"
    /\ call' = [call EXCEPT !.phase = "returned",
                            !.result = {[ok |-> TRUE, response |-> currentResponse,
                                         error |-> ""]}]
    /\ UNCHANGED <<middleware, ctl, pc, enabledMiddleware, idx, currentContext,
                   currentResponse, processedData, registered, before, log, escaped,
                   plugins, streams, upstream, ran, execIn, execOut, conn, store, loads, api, hist, port, wire, boot, rpc>>

\* await this.processRequestMiddleware(...) or await
\* this.processResponseMiddleware(...) rejects: request() has no catch around
\* either, so its own promise rejects with that error
StageRejected ==
    /\ pc = "failed"
    /\ call.phase \in {"called", "responded"}
    /\ call' = [call EXCEPT !.phase = "rejected",
                            !.result = {[ok |-> FALSE, response |-> NoResponse,
                                         error |-> "Error"]}]
    /\ UNCHANGED <<middleware, ctl, pc, enabledMiddleware, idx, currentContext,
                   currentResponse, processedData, registered, before, log, escaped,
                   plugins, streams, upstream, ran, execIn, execOut, conn, store, loads, api, hist, port, wire, boot, rpc>>

\* the caller has the outcome of request(); the call is over
RequestLeave ==
    /\ pc = "idle"
    /\ call.phase \in {"returned", "rejected"}
    /\ call' = NoCall
    /\ UNCHANGED <<middleware, ctl, pc, enabledMiddleware, idx, currentContext,
                   currentResponse, processedData, registered, before, log, escaped,
                   plugins, streams, upstream, ran, execIn, execOut, conn, store, loads, api, hist, port, wire, boot, rpc>>

\* request scripts and response scripts taken by the units of a request() call
CallReqScripts == {"next", "set", "patch", "ret", "skip", "throw"}
CallRespScripts == {"next", "mark", "ret", "throw"}

RequestNext ==
    \/ \E id \in UnitIds, caps \in CapSets, e \in {"undefined", "false", "fnThrows"} :
            AddMiddleware(id, caps, e)
    \/ \E id \in UnitIds : RemoveMiddleware(id)
    \/ \E ctx \in InitialContexts : RequestEnter(ctx)
    \/ call.phase = "called" /\ ProcessRequestStart(call.args)
    \/ \E s \in CallReqScripts : ProcessRequestUnit(s)
    \/ ProcessRequestReturn
    \/ InnerRequestCall
    \/ InnerRequestSettles
    \/ call.phase = "responded"
          /\ ProcessResponseStart(call.request, The(call.outcome).response, <<>>)
    \/ \E s \in CallRespScripts : ProcessResponseUnit(s)
    \/ ProcessResponseReturn
    \/ RequestReturn
    \/ StageRejected
    \/ (pc = "requestDone" => call.phase = "awaiting")
          /\ (pc = "responseDone" => call.phase = "returned")
          /\ (pc = "failed" => call.phase = "rejected")
          /\ Settle
    \/ RequestLeave

RequestSpec == Init /\ [][RequestNext]_vars

\* C17: within one request() call, no transport call is made while
\* request-stage units run; the one call made when they have finished is given
\* the context the stage ended with; response-stage units run only after that
\* call has resolved and before request() has returned, with that same
\* context as ctx.request; and request() returns the response the response
\* stage ended with.
C17_TransportBetweenStages ==
    /\ pc = "request" => call.sends = 0 /\ call.outcome = {}
    /\ (pc = "requestDone" /\ call.phase = "awaiting")
         => call.sends = 1 /\ call.sent = currentContext
    /\ pc \in {"response", "responseDone"}
         => /\ call.sends = 1
            /\ call.outcome # {} /\ The(call.outcome).ok
            /\ currentContext = call.sent
    /\ pc = "response" => call.result = {}
    /\ (pc = "responseDone" /\ call.phase = "returned")
         => call.result = {[ok |-> TRUE, response |-> currentResponse, error |-> ""]}

\* request units changed the context, a response unit ran, request() returned
C17_Witness ==
    /\ pc = "responseDone"
    /\ call.phase = "returned"
    /\ call.sent # call.args
    /\ Len(log) >= 1
    /\ The(call.result).response # The(call.outcome).response

\* C18: when the transport's request call rejects, it was called once, no
\* response stage runs for the call, and request() rejects with that error.
C18_FailurePropagates ==
    (call.outcome # {} /\ ~The(call.outcome).ok)
      => /\ call.sends = 1
         /\ call.phase = "rejected"
         /\ call.result = call.outcome
         /\ pc = "idle"
         /\ log = <<>>

\* the transport rejected while a unit with a response handler is registered
C18_Witness ==
    /\ call.phase = "rejected"
    /\ The(call.result).error = "AbortError"
    /\ EnabledWith(middleware, "onResponse") # <<>>

-----------------------------------------------------------------------------
(* connect(): messages of a connection through the message stage *)

\* The transport's onmessage callback fires with data, or the caller calls
\* wrappedSend(data): processWebSocketMessage(data, direction) is called
MessageArrives(data, direction) ==
    /\ pc = "idle"
    /\ conn.current = {} \/ conn.out # <<>>
    /\ conn' = [current |-> {[data |-> data, direction |-> direction]}, out |-> <<>>]
    /\ UNCHANGED <<middleware, ctl, pc, enabledMiddleware, idx, currentContext,
                   currentResponse, processedData, registered, before, log, escaped,
                   plugins, streams, upstream, ran, execIn, execOut, call, store, loads, api, hist, port, wire, boot, rpc>>

\* the latest message is in hand: arrived and not delivered
InHand == conn.current # {} /\ conn.out = <<>>

\* .then(processedData => onmessage(processedData)) for "receive",
\* send(processedData) after the await for "send"
MessageTarget(direction) == IF direction = "receive" THEN "onmessage" ELSE "send"

\* the promise of processWebSocketMessage resolves; its value is handed on
MessageDelivered ==
    /\ pc = "messageDone"
    /\ InHand
    /\ conn' = [conn EXCEPT !.out = Append(conn.out,
                    [to |-> MessageTarget(The(conn.current).direction),
                     data |-> processedData])]
    /\ UNCHANGED <<middleware, ctl, pc, enabledMiddleware, idx, currentContext,
                   currentResponse, processedData, registered, before, log, escaped,
                   plugins, streams, upstream, ran, execIn, execOut, call, store, loads, api, hist, port, wire, boot, rpc>>

\* the promise of processWebSocketMessage rejects: the .then of the inbound
\* callback has no rejection handler and wrappedSend rejects before its call
\* of send, so the message is handed to no one
MessageDropped ==
    /\ pc = "failed"
    /\ InHand
    /\ conn' = [conn EXCEPT !.current = {}]
    /\ UNCHANGED <<middleware, ctl, pc, enabledMiddleware, idx, currentContext,
                   currentResponse, processedData, registered, before, log, escaped,
                   plugins, streams, upstream, ran, execIn, execOut, call, store, loads, api, hist, port, wire, boot, rpc>>

\* the steps a message takes once it has arrived: they are promise reactions
\* and handler bodies that terminate, so each is taken once it can be
ConnFlow ==
    \/ InHand /\ ProcessMessageStart(The(conn.current).data, The(conn.current).direction)
    \/ \E s \in MsgScripts : ProcessMessageUnit(s)
    \/ ProcessMessageReturn
    \/ MessageDelivered
    \/ MessageDropped

ConnNext ==
    \/ \E id \in UnitIds, caps \in CapSets, e \in EnabledValues :
            AddMiddleware(id, caps, e)
    \/ \E id \in UnitIds : RemoveMiddleware(id)
    \/ \E id \in UnitIds, e \in {"true", "false"} : SetMiddlewareEnabled(id, e)
    \/ \E d \in Messages, dir \in Directions : MessageArrives(d, dir)
    \/ ConnFlow
    \/ (pc = "messageDone" => conn.out # <<>>)
          /\ (pc = "failed" => ~InHand)
          /\ Settle

ConnSpec == Init /\ [][ConnNext]_vars /\ WF_vars(ConnFlow)

\* C19 (as claimed): a message of either direction is handed on only with
\* the value the message stage ended with, every unit taken for the stage
\* having been invoked, to onmessage when inbound and to the transport's send
\* when outbound, never twice; and a message that has arrived is eventually
\* handed on, also when a unit throws.
C19_EachMessageDeliveredOnce ==
    /\ [](/\ Len(conn.out) <= 1
          /\ conn.out # <<>> =>
               /\ conn.out[1].to = IF The(conn.current).direction = "receive"
                                       THEN "onmessage" ELSE "send"
               /\ pc = "messageDone" =>
                     /\ conn.out[1].data = processedData
                     /\ Len(log) = Len(EnabledWith(registered, "modifyWebSocketMessage")))
    /\ (InHand ~> conn.out # <<>>)

-----------------------------------------------------------------------------
(* reloadPlugins / loadPluginsFromStorage over the localforage stores *)

\* store writes handled in one behaviour, and reloadPlugins calls made
MaxWrites == 1
MaxReloads == 1

\* pluginStorage.keys(): the keys present, in key order
KeyOrder == <<"p", "q">>
Keys(st) ==
    LET Present(id) == st.code[id] # {}
    IN  SelectSeq(KeyOrder, Present)

InSeq(x, seq) == \E k \in 1..Len(seq) : seq[k] = x

\* the identifiers a Map holds
Ids(map) == {map[k].id : k \in 1..Len(map)}

\* a run of loadPluginsFromStorage about to make its first read.  pc: the read
\* it awaits ("enabled", "keys", "code", "meta") or "done"; reload: begun by
\* reloadPlugins; code: the source read for keys[i]; faulted: a read rejected;
\* dirty: history, a store was written since the run began; plugIds, mwIds:
\* history, the identifiers in this.plugins and this.middleware when it ended
NewLoad(reload) ==
    [pc |-> "enabled", reload |-> reload, enabledIds |-> <<>>, keys |-> <<>>, i |-> 1,
     code |-> {}, faulted |-> FALSE, dirty |-> FALSE, plugIds |-> {}, mwIds |-> {}]

\* the run ends: at the end of the try block, or in the catch block
Ended(l, plugs, mws, faulted) ==
    [l EXCEPT !.pc = "done", !.faulted = faulted, !.plugIds = Ids(plugs), !.mwIds = Ids(mws)]

StorageUnchanged ==
    UNCHANGED <<ctl, pc, enabledMiddleware, idx, currentContext, currentResponse,
                processedData, registered, before, log, escaped, streams, upstream,
                ran, execIn, execOut, call, conn, api, hist, port, wire, boot, rpc>>

\* reloadPlugins(): both maps are cleared, then the load begins
ReloadPlugins ==
    /\ Len(SelectSeq(loads, LAMBDA l : l.reload)) < MaxReloads
    /\ plugins' = <<>>
    /\ middleware' = <<>>
    /\ loads' = Append(loads, NewLoad(TRUE))
    /\ UNCHANGED store
    /\ StorageUnchanged

\* enabledPluginIds = await this.statusStorage.getItem('enabled') || []
LoadReadEnabled(k) ==
    /\ loads[k].pc = "enabled"
    /\ loads' = [loads EXCEPT ![k].pc = "keys", ![k].enabledIds = store.enabled]
    /\ UNCHANGED <<store, plugins, middleware>>
    /\ StorageUnchanged

\* pluginKeys = await this.pluginStorage.keys(); the loop is entered
LoadReadKeys(k) ==
    /\ loads[k].pc = "keys"
    /\ loads' = [loads EXCEPT ![k] =
            IF Keys(store) = <<>>
                THEN Ended(loads[k], plugins, middleware, FALSE)
                ELSE [loads[k] EXCEPT !.pc = "code", !.keys = Keys(store), !.i = 1]]
    /\ UNCHANGED <<store, plugins, middleware>>
    /\ StorageUnchanged

\* pluginCode = await this.pluginStorage.getItem(pluginId)
LoadReadCode(k) ==
    /\ loads[k].pc = "code"
    /\ loads' = [loads EXCEPT ![k].pc = "meta",
                               ![k].code = store.code[loads[k].keys[loads[k].i]]]
    /\ UNCHANGED <<store, plugins, middleware>>
    /\ StorageUnchanged

\* the plugin built from what was read: sites: metadata?.sites || ['*']
LoadedPlugin(id, code, sites) ==
    [name |-> id, function |-> The(code),
     sites |-> IF sites = {} THEN << <<Star>> >> ELSE The(sites)]

\* mutant: a stored plugin is loaded whether enabled or not
Loadable_IgnoresEnabled(l, id) == l.code # {} /\ The(l.code) # <<>>

\* if (enabledPluginIds.includes(pluginId)) { if (pluginCode) { ... } }
Loadable(l, id) == InSeq(id, l.enabledIds) /\ l.code # {} /\ The(l.code) # <<>>

LoadReadMeta_RemovesSkipped(k) ==
    /\ loads[k].pc = "meta"
    /\ LET l == loads[k]
           id == l.keys[l.i]
       IN  /\ store' = IF Loadable(l, id) THEN store ELSE [store EXCEPT !.code[id] = {}]
           /\ loads' = [loads EXCEPT ![k] =
                   IF l.i = Len(l.keys)
                       THEN Ended(l, plugins, middleware, FALSE)
                       ELSE [l EXCEPT !.pc = "code", !.i = l.i + 1, !.code = {}]]
    /\ UNCHANGED <<plugins, middleware>>
    /\ StorageUnchanged

\* metadata = await metadataStorage.getItem(pluginId); the rest of the loop
\* body, with this.addPlugin(plugin) for a plugin enabled and with a source
LoadReadMeta(k) ==
    /\ loads[k].pc = "meta"
    /\ LET l == loads[k]
           id == l.keys[l.i]
           plugin == LoadedPlugin(id, l.code, store.sites[id])
           plugs == IF Loadable(l, id)
                        THEN MapSet(plugins, id, [id |-> id, plugin |-> plugin])
                        ELSE plugins
           mws == IF Loadable(l, id)
                      THEN MapSet(middleware, id, PluginUnit(plugin))
                      ELSE middleware
       IN  /\ plugins' = plugs
           /\ middleware' = mws
           /\ loads' = [loads EXCEPT ![k] =
                   IF l.i = Len(l.keys)
                       THEN Ended(l, plugs, mws, FALSE)
                       ELSE [l EXCEPT !.pc = "code", !.i = l.i + 1, !.code = {}]]
    /\ UNCHANGED store
    /\ StorageUnchanged

\* mutant: the fault empties the registry
LoadFaults_ClearsRegistry(k) ==
    /\ loads[k].pc \in {"enabled", "keys", "code", "meta"}
    /\ loads' = [loads EXCEPT ![k] = Ended(loads[k], <<>>, <<>>, TRUE)]
    /\ plugins' = <<>>
    /\ middleware' = <<>>
    /\ UNCHANGED store
    /\ StorageUnchanged

\* a read rejects: catch (error) { console.error(...) }
LoadFaults(k) ==
    /\ loads[k].pc \in {"enabled", "keys", "code", "meta"}
    /\ loads' = [loads EXCEPT ![k] = Ended(loads[k], plugins, middleware, TRUE)]
    /\ UNCHANGED <<store, plugins, middleware>>
    /\ StorageUnchanged

\* every run begun so far has seen a write
Dirtied == [k \in 1..Len(loads) |-> [loads[k] EXCEPT !.dirty = TRUE]]

\* one write to a store, made by the management API from another context
StoreWrite(st) ==
    /\ store.writes < MaxWrites
    /\ store' = [st EXCEPT !.writes = store.writes + 1]
    /\ loads' = Dirtied
    /\ UNCHANGED <<plugins, middleware>>
    /\ StorageUnchanged

\* pluginStorage.setItem(name, source) and pluginStorage.removeItem(name)
SetCode(id, src) == StoreWrite([store EXCEPT !.code[id] = {src}])
RemoveCode(id) == store.code[id] # {} /\ StoreWrite([store EXCEPT !.code[id] = {}])

\* metadataStorage.setItem(name, { sites, name })
SetSites(id, sites) == StoreWrite([store EXCEPT !.sites[id] = {sites}])

\* statusStorage.setItem('enabled', list)
SetEnabled(list) == list # store.enabled /\ StoreWrite([store EXCEPT !.enabled = list])

StoredSources == { <<>>, <<"return body+'!';">> }
EnabledLists == { <<>>, <<"p">>, <<"q", "p">> }

\* the stores as the transport finds them when it is constructed
InitialStores ==
    { [code |-> c, sites |-> [id \in PluginNames |-> IF id = "q" THEN m ELSE {}],
       enabled |-> e, writes |-> 0] :
        c \in [PluginNames -> {{}} \cup {{src} : src \in StoredSources}],
        m \in {{}, {<< HostB >>}},
        e \in EnabledLists }

\* the constructor has run: its call of loadPluginsFromStorage is under way
LoadInit ==
    /\ middleware = <<>>
    /\ ctl = 0
    /\ pc = "idle"
    /\ enabledMiddleware = <<>>
    /\ idx = 1
    /\ currentContext = NoContext
    /\ currentResponse = NoResponse
    /\ processedData = <<>>
    /\ registered = <<>>
    /\ before = <<>>
    /\ log = <<>>
    /\ escaped = FALSE
    /\ plugins = <<>>
    /\ streams = <<>>
    /\ upstream = NoUpstream
    /\ ran = <<>>
    /\ execIn = {}
    /\ execOut = {}
    /\ call = NoCall
    /\ conn = NoConn
    /\ store \in InitialStores
    /\ loads = <<NewLoad(FALSE)>>
    /\ api = <<>>
    /\ hist = <<>>
    /\ port = NoPort
    /\ wire = NoWire
    /\ boot = NoBoot
    /\ rpc = NoRpc

LoadNext ==
    \/ ReloadPlugins
    \/ \E k \in 1..Len(loads) : LoadReadEnabled(k)
    \/ \E k \in 1..Len(loads) : LoadReadKeys(k)
    \/ \E k \in 1..Len(loads) : LoadReadCode(k)
    \/ \E k \in 1..Len(loads) : LoadReadMeta(k)
    \/ \E k \in 1..Len(loads) : LoadFaults(k)
    \/ \E id \in PluginNames, src \in StoredSources : SetCode(id, src)
    \/ \E id \in PluginNames : RemoveCode(id)
    \/ \E id \in PluginNames : SetSites(id, << HostA >>)
    \/ \E list \in EnabledLists : SetEnabled(list)

LoadSpec == LoadInit /\ [][LoadNext]_vars

\* the identifiers among the persisted keys that are in the persisted enabled
\* list and whose stored source is not empty
Persisted ==
    {id \in PluginNames :
        /\ store.code[id] # {} /\ The(store.code[id]) # <<>>
        /\ InSeq(id, store.enabled)}

\* C20 (as claimed): when a reload, or the load at construction, has ended
\* without a storage fault, and no store was written since it began, the
\* plugin map and the handler map hold at its end exactly the identifiers
\* persisted as enabled with a source that is not empty.
C20_RegistryMirrorsStore ==
    \A k \in 1..Len(loads) :
        (loads[k].pc = "done" /\ ~loads[k].faulted /\ ~loads[k].dirty)
          => /\ loads[k].plugIds = Persisted
             /\ loads[k].mwIds = Persisted

\* a step of some run of the loader, or the call of reloadPlugins
LoadStep ==
    \/ Len(loads') > Len(loads)
    \/ \E k \in 1..Len(loads) : loads'[k].pc # loads[k].pc

\* the run has ended having passed over a key that is not enabled, or one
\* stored without a source
SkippedSome(l) ==
    /\ l.pc = "done" /\ ~l.faulted
    /\ \E n \in 1..Len(l.keys) :
          \/ ~InSeq(l.keys[n], l.enabledIds)
          \/ store.code[l.keys[n]] = {<<>>}

\* C21: no step of reloadPlugins or of loadPluginsFromStorage changes the
\* stored sources, the stored metadata or the enabled list; that includes
\* the steps that pass over a plugin that is disabled or has no code.
C21_ReloadLeavesStore ==
    [][LoadStep => store' = store]_vars

C21_Witness ==
    \E k \in 1..Len(loads) :
        /\ loads[k].reload /\ SkippedSome(loads[k])
        /\ \A n \in 1..Len(loads[k].keys) : store.code[loads[k].keys[n]] # {}

-----------------------------------------------------------------------------
(* RefluxAPI: the management calls over the localforage stores *)

\* The methods that write the stores are modelled; listPlugins and
\* getEnabledPlugins only read them.

\* management calls made in one behaviour
MaxCalls == 3

ApiOps == {"addPlugin", "removePlugin", "enablePlugin", "disablePlugin"}

\* the first storage operation each method awaits
FirstOp(op) ==
    CASE op = "addPlugin" -> "setCode"
      [] op = "removePlugin" -> "removeCode"
      [] op = "updatePluginSites" -> "getMeta"
      [] OTHER -> "getEnabled"

\* a call of a method, about to make its first storage operation.  read: the
\* value of enabledPlugins; outcome: of the promise the call returned
NewCall(op, plugin) ==
    [op |-> op, name |-> plugin.name, plugin |-> plugin, pc |-> FirstOp(op),
     read |-> <<>>, outcome |-> "pending"]

\* enabledPlugins.filter(id => id !== name)
Without(list, name) == SelectSeq(list, LAMBDA id : id # name)

Resolved(c) == [c EXCEPT !.pc = "done", !.outcome = "resolved"]

\* throw new Error(`Plugin ${name} not found`), rethrown by the catch
NotFound(c) == [c EXCEPT !.pc = "done", !.outcome = "rejected"]

\* the call after the storage operation it awaits has settled, with the
\* code up to the next await
CallAfter(c, st) ==
    CASE c.pc = "setCode" -> [c EXCEPT !.pc = "setMeta"]
      [] c.pc = "setMeta" -> Resolved(c)
      [] c.pc = "removeCode" -> [c EXCEPT !.pc = "removeMeta"]
      [] c.pc = "removeMeta" -> [c EXCEPT !.pc = "getEnabled"]
      [] c.pc = "getEnabled" /\ c.op = "enablePlugin" ->
            IF InSeq(c.name, st.enabled)
                THEN Resolved([c EXCEPT !.read = st.enabled])
                ELSE [c EXCEPT !.pc = "setEnabled", !.read = Append(st.enabled, c.name)]
      [] c.pc = "getEnabled" /\ c.op # "enablePlugin" ->
            [c EXCEPT !.pc = "setEnabled", !.read = Without(st.enabled, c.name)]
      [] c.pc = "setEnabled" -> Resolved(c)
      [] c.pc = "getMeta" ->
            IF st.sites[c.name] # {} THEN [c EXCEPT !.pc = "setSites"] ELSE NotFound(c)
      [] c.pc = "setSites" -> Resolved(c)

\* the stores after the storage operation the call awaits
StoreAfter(c, st) ==
    CASE c.pc = "setCode" -> [st EXCEPT !.code[c.name] = {c.plugin.function}]
      [] c.pc = "setMeta" -> [st EXCEPT !.sites[c.name] = {c.plugin.sites}]
      [] c.pc = "removeCode" -> [st EXCEPT !.code[c.name] = {}]
      [] c.pc = "removeMeta" -> [st EXCEPT !.sites[c.name] = {}]
      [] c.pc = "setEnabled" -> [st EXCEPT !.enabled = c.read]
      [] c.pc = "setSites" -> [st EXCEPT !.sites[c.name] = {c.plugin.sites}]
      [] OTHER -> st

\* an entry of the history: a management call begins ("call") or resolves
\* ("return"), request() is called ("request") or resolves with a response of
\* this body ("response"); runs: the loader runs begun so far; settled: all
\* of them have ended
Seen(ev, op, name, k, body) ==
    [ev |-> ev, op |-> op, name |-> name, k |-> k, body |-> body,
     runs |-> Len(loads), settled |-> \A n \in 1..Len(loads) : loads[n].pc = "done"]

ApiUnchanged ==
    UNCHANGED <<middleware, ctl, pc, enabledMiddleware, idx, currentContext, currentResponse,
                processedData, registered, before, log, escaped, plugins, streams,
                upstream, ran, execIn, execOut, call, conn, port, wire, boot, rpc>>

\* api.addPlugin(plugin), api.removePlugin(name), api.enablePlugin(name),
\* api.disablePlugin(name) or api.updatePluginSites(name, sites) is called;
\* plugin holds the arguments
ApiCall(op, plugin) ==
    /\ Len(api) < MaxCalls
    /\ api' = Append(api, NewCall(op, plugin))
    /\ hist' = Append(hist, Seen("call", op, plugin.name, Len(api) + 1, NullBody))
    /\ UNCHANGED <<store, loads>>
    /\ ApiUnchanged

\* the storage operation a call awaits settles
ApiStep(k) ==
    /\ api[k].pc # "done"
    /\ store' = StoreAfter(api[k], store)
    /\ api' = [api EXCEPT ![k] = CallAfter(api[k], store)]
    /\ hist' = IF CallAfter(api[k], store).outcome = "resolved"
                  THEN Append(hist, Seen("return", api[k].op, api[k].name, k, NullBody))
                  ELSE hist
    /\ loads' = IF store' = store THEN loads ELSE Dirtied
    /\ ApiUnchanged

\* the storage operation rejects: catch (error) { ...; throw error }
ApiFaults(k) ==
    /\ api[k].pc # "done"
    /\ api' = [api EXCEPT ![k].pc = "done", ![k].outcome = "rejected"]
    /\ UNCHANGED <<store, loads, hist>>
    /\ ApiUnchanged

ApiPlugins ==
    { [name |-> n, sites |-> << <<Star>> >>, function |-> <<"return body+'!';">>] : n \in PluginNames }

\* the arguments of the updatePluginSites calls
SiteUpdates ==
    { [name |-> n, sites |-> << HostB >>, function |-> <<>>] : n \in PluginNames }

ApiNext ==
    \/ \E op \in ApiOps, plugin \in ApiPlugins : ApiCall(op, plugin)
    \/ \E update \in SiteUpdates : ApiCall("updatePluginSites", update)
    \/ \E k \in 1..Len(api) : ApiStep(k)
    \/ \E k \in 1..Len(api) : ApiFaults(k)

ApiSpec == Init /\ [][ApiNext]_vars

-----------------------------------------------------------------------------
(* A transport with its stores: loader runs, management calls and requests *)

\* request() calls made in one behaviour, and management calls beside them
MaxSends == 2
MaxLifeCalls == 2

Sends == Cardinality({n \in 1..Len(hist) : hist[n].ev = "request"})

\* the plugin the caller manages, awaiting each call before the next
LifePlugin == [name |-> "p", sites |-> << <<Star>> >>, function |-> <<"return body+'!';">>]

LifeContext == Context(Url(HostA), NoHeaders)
LifeResponse ==
    Response(StringBody(Html), [k \in {"content-type"} |-> <<"text/html">>], 200, <<"OK">>)

\* request() is called and goes up to its call of inner.request: the units
\* made from plugins have no onRequest handler, the request stage runs none
Send(ctx) ==
    /\ pc = "idle"
    /\ call.phase = "none"
    /\ Sends < MaxSends
    /\ EnabledWith(middleware, "onRequest") = <<>>
    /\ call' = [NoCall EXCEPT !.phase = "awaiting", !.args = ctx, !.request = ctx,
                              !.sent = InnerArguments(ctx, ctx), !.sends = 1]
    /\ hist' = Append(hist, Seen("request", "request", "", 0, NullBody))
    /\ UNCHANGED <<middleware, ctl, pc, enabledMiddleware, idx, currentContext,
                   currentResponse, processedData, registered, before, log, escaped,
                   plugins, streams, upstream, ran, execIn, execOut, conn, store, loads, api, port, wire, boot, rpc>>

\* the transport's promise resolves
Arrive(response) ==
    /\ pc = "idle"
    /\ call.phase = "awaiting"
    /\ call' = InnerResolved(call, response)
    /\ UNCHANGED <<middleware, ctl, pc, enabledMiddleware, idx, currentContext,
                   currentResponse, processedData, registered, before, log, escaped,
                   plugins, streams, upstream, ran, execIn, execOut, conn, store, loads, api, hist, port, wire, boot, rpc>>

\* the caller has the response request() resolved with
Receive ==
    /\ pc = "idle"
    /\ call.phase = "returned"
    /\ call' = NoCall
    /\ hist' = Append(hist, Seen("response", "request", "", 0, The(call.result).response.body))
    /\ UNCHANGED <<middleware, ctl, pc, enabledMiddleware, idx, currentContext,
                   currentResponse, processedData, registered, before, log, escaped,
                   plugins, streams, upstream, ran, execIn, execOut, conn, store, loads, api, port, wire, boot, rpc>>

\* the response stage of a string body awaits promises that are already
\* settled, so it runs to its end in microtasks: storage operations, whose
\* results arrive as tasks, and calls by other callers come before or after it
Between == call.phase \in {"none", "awaiting"}

\* one caller, that awaits each management call, each reload and each
\* request before it makes the next call; the load begun by the constructor
\* goes on beside it
Awaited ==
    /\ call.phase = "none"
    /\ \A k \in 1..Len(api) : api[k].pc = "done"
    /\ \A k \in 1..Len(loads) : loads[k].reload => loads[k].pc = "done"

LifeNext ==
    \/ Between /\ Awaited /\ ReloadPlugins
    \/ \E k \in 1..Len(loads) : Between /\ LoadReadEnabled(k)
    \/ \E k \in 1..Len(loads) : Between /\ LoadReadKeys(k)
    \/ \E k \in 1..Len(loads) : Between /\ LoadReadCode(k)
    \/ \E k \in 1..Len(loads) : Between /\ LoadReadMeta(k)
    \/ \E op \in ApiOps \ {"removePlugin"} :
            /\ Between /\ Awaited /\ Len(api) < MaxLifeCalls
            /\ ApiCall(op, LifePlugin)
    \/ \E k \in 1..Len(api) : Between /\ ApiStep(k)
    \/ Awaited /\ Send(LifeContext)
    \/ Arrive(LifeResponse)
    \/ call.phase = "responded"
          /\ ProcessResponseStart(call.request, The(call.outcome).response, <<>>)
    \/ ProcessResponsePluginUnit
    \/ ProcessResponseReturn
    \/ RequestReturn
    \/ (pc = "responseDone" => call.phase = "returned") /\ Settle
    \/ Receive

\* the stores a transport is constructed over
LifeStores ==
    { NoStore,
      [NoStore EXCEPT !.code = [id \in PluginNames |-> {<<"return body+'!';">>}],
                      !.enabled = <<"p">>] }

LifeInit == LoadInit /\ store \in LifeStores

LifeSpec == LifeInit /\ [][LifeNext]_vars

\* a transport whose storage reads may reject, and the requests through it
FaultNext ==
    \/ Between /\ ReloadPlugins
    \/ \E k \in 1..Len(loads) : Between /\ LoadReadEnabled(k)
    \/ \E k \in 1..Len(loads) : Between /\ LoadReadKeys(k)
    \/ \E k \in 1..Len(loads) : Between /\ LoadReadCode(k)
    \/ \E k \in 1..Len(loads) : Between /\ LoadReadMeta(k)
    \/ \E k \in 1..Len(loads) : Between /\ LoadFaults(k)
    \/ Send(LifeContext)
    \/ Arrive(LifeResponse)
    \/ call.phase = "responded"
          /\ ProcessResponseStart(call.request, The(call.outcome).response, <<>>)
    \/ ProcessResponsePluginUnit
    \/ ProcessResponseReturn
    \/ RequestReturn
    \/ (pc = "responseDone" => call.phase = "returned") /\ Settle
    \/ Receive

FaultSpec == LifeInit /\ [][FaultNext]_vars

-----------------------------------------------------------------------------
(* Claims about the registry and the stores *)

\* the latest loader run ended in its catch block
LastLoadFaulted == loads[Len(loads)].pc = "done" /\ loads[Len(loads)].faulted

\* this step is the storage fault of run k
FaultOf(k) == ~loads[k].faulted /\ loads'[k].faulted

\* C22: a storage fault at any read of a loader run ends the run without
\* failing it (the run is over, its promise resolved), leaves both maps as
\* they were, so that what the run registered before stays registered; and a
\* response stage begun after the latest run ended by a fault takes its
\* units from that registry and runs every one of them.
C22_FaultCaughtInReload ==
    /\ [](\A k \in 1..Len(loads) : loads[k].faulted => loads[k].pc = "done")
    /\ [][\A k \in 1..Len(loads) :
             FaultOf(k) => /\ plugins' = plugins /\ middleware' = middleware
                           /\ loads'[k].mwIds = Ids(middleware)]_vars
    /\ [][(pc = "idle" /\ pc' = "response" /\ LastLoadFaulted)
             => /\ registered' = middleware
                /\ loads[Len(loads)].mwIds \subseteq Ids(enabledMiddleware')]_vars
    /\ [](pc = "responseDone" => Len(log) = Len(enabledMiddleware))

\* a run registered p and faulted reading q; the next response went through p
C22_Witness ==
    /\ pc = "responseDone"
    /\ call.phase = "returned"
    /\ LastLoadFaulted
    /\ loads[Len(loads)].mwIds = {"p"}
    /\ Len(loads[Len(loads)].keys) = 2
    /\ Len(log) = 1
    /\ currentResponse.body.text = Html \o <<"!">>

-----------------------------------------------------------------------------
(* Claims about the management calls *)

\* what the stores hold for one plugin name
Entry(st, id) == [code |-> st.code[id], sites |-> st.sites[id], enabled |-> InSeq(id, st.enabled)]

\* this step is a step of call k
StepOf(k) == k <= Len(api) /\ api'[k] # api[k]

NoEntry == [code |-> {}, sites |-> {}, enabled |-> FALSE]

\* C25 (as claimed): no storage operation of removePlugin(name) changes the
\* source, the metadata or the enabled status stored for another name, and
\* when the call resolves, with no other call made for the same name, the
\* name has no stored source, no stored metadata and is not in the enabled list.
C25_RemoveOnlyThatPlugin ==
    [][\A k \in 1..Len(api) :
          (StepOf(k) /\ api[k].op = "removePlugin") =>
              /\ \A id \in PluginNames \ {api[k].name} : Entry(store', id) = Entry(store, id)
              /\ (/\ api'[k].outcome = "resolved"
                  /\ \A j \in 1..Len(api) : j # k => api[j].name # api[k].name)
                    => Entry(store', api[k].name) = NoEntry]_vars

\* the positions in the history where a call of op for this name begins or returns
Events(ev, op, id) ==
    {n \in 1..Len(hist) : hist[n].ev = ev /\ hist[n].op = op /\ hist[n].name = id}

\* C26 (as claimed): a name for which an addPlugin call has returned is in
\* the enabled list only if an enablePlugin call for it began after an
\* addPlugin call for it began.
C26_DisabledByDefault ==
    \A id \in PluginNames :
        (Events("return", "addPlugin", id) # {} /\ InSeq(id, store.enabled))
          => \E m \in Events("call", "addPlugin", id), n \in Events("call", "enablePlugin", id) : m < n

-----------------------------------------------------------------------------
(* Claims about a managed plugin and the requests that follow *)

\* the requests in the history, and the response each has got ({} if none yet)
Requests == {n \in 1..Len(hist) : hist[n].ev = "request"}
AnswerOf(r) ==
    {n \in (r + 1)..Len(hist) :
        /\ hist[n].ev = "response"
        /\ \A m \in (r + 1)..(n - 1) : hist[m].ev # "response"}

\* no management call begins after position a and before position b
NoCallBetween(a, b) == \A n \in (a + 1)..(b - 1) : hist[n].ev # "call"

\* the positions where the registration of the plugin is complete: a
\* management call returns, addPlugin for it has returned, every loader run
\* begun has ended, and no management call follows
Registrations ==
    {a \in 1..Len(hist) :
        /\ hist[a].ev = "return" /\ hist[a].settled
        /\ \E n \in Events("return", "addPlugin", LifePlugin.name) : n <= a
        /\ NoCallBetween(a, Len(hist) + 1)}

\* the plugin's fragment has run on the body: return body+'!';
RewrittenBody(body) == body.kind = "string" /\ body.text = Html \o <<"!">>

\* C23 (as claimed): after the registration of a plugin with a matching
\* scope, the body a request gets when no reload was made equals the body the
\* same request gets after a reload from the store has completed.
C23_ReloadRoundTrip ==
    \A a \in Registrations : \A r1 \in Requests, r2 \in Requests :
        (/\ a < r1 /\ hist[r1].runs = hist[a].runs
         /\ a < r2 /\ hist[r2].runs = hist[a].runs + 1 /\ hist[r2].settled)
          => \A s1 \in AnswerOf(r1), s2 \in AnswerOf(r2) : hist[s1].body = hist[s2].body

\* the first request made after position e, when every loader run had ended
\* by then and no management call and no reload came in between
NextRequestAfter(e) ==
    {r \in Requests :
        /\ e < r /\ hist[e].settled /\ NoCallBetween(e, r) /\ hist[r].runs = hist[e].runs
        /\ \A m \in (e + 1)..(r - 1) : hist[m].ev # "request"}

\* C24 (as claimed): when addPlugin and then enablePlugin have returned for a
\* plugin, the next request, made with no reloadPlugins call, gets the body
\* rewritten by the plugin; when disablePlugin has returned for it, the next
\* request gets the body as the transport sent it.
C24_LoadedOnNextRequest ==
    /\ \A e \in Events("return", "enablePlugin", LifePlugin.name) :
          (\E n \in Events("return", "addPlugin", LifePlugin.name) : n < e)
            => \A r \in NextRequestAfter(e) : \A sn \in AnswerOf(r) : RewrittenBody(hist[sn].body)
    /\ \A d \in Events("return", "disablePlugin", LifePlugin.name) :
          \A r \in NextRequestAfter(d) : \A sn \in AnswerOf(r) : ~RewrittenBody(hist[sn].body)

-----------------------------------------------------------------------------
(* The control port: setupControlPort and sendResponse *)

\* control messages handled in one behaviour
MaxPort == 4

PortTypes == {"addMiddleware", "removeMiddleware", "setMiddlewareEnabled", "listMiddleware",
              "addPlugin", "removePlugin", "listPlugins"}

\* a MessagePortMessage.  reflux: it carries the protocol marker; id, unit
\* (message.middleware), fn, plugin: sets holding the field if it is there;
\* fn is "ok" for a source eval accepts, "bad" for one it throws on, and
\* "guarded" for the source of a unit whose enabled is a function that throws
Message(reflux, type, id, unit, fn, plugin, enabled) ==
    [reflux |-> reflux, type |-> type, id |-> id, middleware |-> unit, fn |-> fn,
     plugin |-> plugin, enabled |-> enabled]

\* if (message.id): the field is there and is not the empty string
HasId(message) == message.id # {} /\ The(message.id) # ""

\* case 'listMiddleware', when no call of isMiddlewareEnabled throws
MiddlewareList(mw) ==
    [k \in 1..Len(mw) |-> [id |-> mw[k].id, enabled |-> isMiddlewareEnabled(mw[k]) = "true"]]

\* case 'listPlugins', when no call of isMiddlewareEnabled throws
PluginList(plugs, mw) ==
    [k \in 1..Len(plugs) |->
        [name |-> plugs[k].id, sites |-> plugs[k].plugin.sites,
         enabled |-> IF MapHas(mw, plugs[k].id)
                        THEN isMiddlewareEnabled(mw[IndexOfId(mw, plugs[k].id)]) = "true"
                        ELSE FALSE]]

\* the map callback of 'listPlugins' throws: a plugin's name is the key of a
\* unit whose enabled function throws
PluginListThrows(plugs, mw) ==
    \E k \in 1..Len(plugs) :
        /\ MapHas(mw, plugs[k].id)
        /\ isMiddlewareEnabled(mw[IndexOfId(mw, plugs[k].id)]) = "throws"

\* what the handler has done when it is over
Outcome(mw, plugs, replies) == [middleware |-> mw, plugins |-> plugs, replies |-> replies]

\* controlPort.onmessage: the registry after the message and the data of the
\* responses sent for it, in the order sent
Handle(message, mw, plugs) ==
    CASE ~message.reflux -> Outcome(mw, plugs, <<>>)
      [] message.reflux /\ message.type = "addMiddleware" ->
            IF message.middleware # {}
                THEN Outcome(MapSet(mw, The(message.middleware).id, The(message.middleware)),
                             plugs, <<Success>>)
            ELSE IF HasId(message) /\ message.fn = {"bad"}
                THEN Outcome(mw, plugs, <<Failure>>)
            ELSE IF HasId(message) /\ message.fn = {"ok"}
                THEN Outcome(MapSet(mw, The(message.id),
                                    Unit(The(message.id), {"onResponse"}, "undefined")),
                             plugs, <<Success>>)
            ELSE IF HasId(message) /\ message.fn = {"guarded"}
                THEN Outcome(MapSet(mw, The(message.id),
                                    Unit(The(message.id), {"onResponse"}, "fnThrows")),
                             plugs, <<Success>>)
            ELSE Outcome(mw, plugs, <<Success>>)
      [] message.reflux /\ message.type = "removeMiddleware" ->
            IF HasId(message)
                THEN Outcome(MapDelete(mw, The(message.id)), plugs, <<Success>>)
                ELSE Outcome(mw, plugs, <<>>)
      [] message.reflux /\ message.type = "setMiddlewareEnabled" ->
            IF HasId(message) /\ MapHas(mw, The(message.id))
                THEN Outcome([mw EXCEPT ![IndexOfId(mw, The(message.id))].enabled = message.enabled],
                             plugs, <<Success>>)
                ELSE Outcome(mw, plugs, <<>>)
      [] message.reflux /\ message.type = "listMiddleware" ->
            IF FilterThrows(mw)
                THEN Outcome(mw, plugs, <<Failure>>)
                ELSE Outcome(mw, plugs, <<Listing(MiddlewareList(mw))>>)
      [] message.reflux /\ message.type = "addPlugin" ->
            IF message.plugin # {}
                THEN Outcome(MapSet(mw, The(message.plugin).name, PluginUnit(The(message.plugin))),
                             MapSet(plugs, The(message.plugin).name,
                                    [id |-> The(message.plugin).name, plugin |-> The(message.plugin)]),
                             <<Success>>)
                ELSE Outcome(mw, plugs, <<>>)
      [] message.reflux /\ message.type = "removePlugin" ->
            IF HasId(message)
                THEN Outcome(MapDelete(mw, The(message.id)), MapDelete(plugs, The(message.id)),
                             <<Success>>)
                ELSE Outcome(mw, plugs, <<>>)
      [] message.reflux /\ message.type = "listPlugins" ->
            IF PluginListThrows(plugs, mw)
                THEN Outcome(mw, plugs, <<Failure>>)
                ELSE Outcome(mw, plugs, <<Listing(PluginList(plugs, mw))>>)
      [] OTHER -> Outcome(mw, plugs, <<>>)

PortUnchanged ==
    UNCHANGED <<ctl, pc, enabledMiddleware, idx, currentContext, currentResponse,
                processedData, registered, before, log, escaped, streams, upstream,
                ran, execIn, execOut, call, conn, store, loads, api, hist, wire, boot, rpc>>

\* a message arrives on the control port and its handler runs; the caller
\* numbers its messages, the number is the messageId
PortMessage(message) ==
    /\ pc = "idle"
    /\ Len(port.handled) < MaxPort
    /\ \E n \in {Len(port.handled) + 1} :
       \E o \in {Handle(message, middleware, plugins)} :
          /\ middleware' = o.middleware
          /\ plugins' = o.plugins
          /\ port' = [handled |-> Append(port.handled, message),
                      posted |-> port.posted \o
                                   [k \in 1..Len(o.replies) |-> PortResponse(n, o.replies[k])]]
    /\ PortUnchanged

PortPlugins ==
    { [name |-> "p", sites |-> << <<Star>> >>, function |-> <<"return body+'!';">>],
      [name |-> "p", sites |-> << HostB >>, function |-> <<"return body;">>],
      [name |-> "q", sites |-> << HostA >>, function |-> <<"return body;">>] }

\* the messages a caller posts
PortMessages ==
    { Message(r, "addMiddleware", {}, {Unit("A", {"onResponse"}, "undefined")}, {}, {}, "undefined") :
        r \in BOOLEAN }
    \cup { Message(TRUE, "addMiddleware", {"B"}, {}, f, {}, "undefined") :
             f \in {{"ok"}, {"bad"}, {"guarded"}} }
    \cup { Message(TRUE, "addMiddleware", {}, {}, {}, {}, "undefined") }
    \cup { Message(TRUE, "removeMiddleware", i, {}, {}, {}, "undefined") : i \in {{}, {"A"}} }
    \cup { Message(TRUE, "removePlugin", i, {}, {}, {}, "undefined") :
             i \in {{}, {""}, {"p"}, {"q"}} }
    \cup { Message(TRUE, "setMiddlewareEnabled", i, {}, {}, {}, "false") :
             i \in {{}, {"A"}, {"p"}} }
    \cup { Message(TRUE, "addPlugin", {}, {}, {}, pl, "undefined") :
             pl \in {{}} \cup {{x} : x \in PortPlugins} }
    \cup { Message(TRUE, t, {}, {}, {}, {}, "undefined") :
             t \in {"listMiddleware", "listPlugins"} }

PortNext == \E message \in PortMessages : PortMessage(message)

PortSpec == Init /\ [][PortNext]_vars

\* the responses posted that echo this messageId
ResponsesTo(n) == {k \in 1..Len(port.posted) : port.posted[k].messageId = n}

\* C27 (as claimed): every message handled that carries the protocol marker
\* and is of one of the seven request types has got exactly one response
\* echoing its messageId, whatever its payload.
C27_OneResponsePerRequest ==
    \A n \in 1..Len(port.handled) :
        (port.handled[n].reflux /\ port.handled[n].type \in PortTypes)
          => Cardinality(ResponsesTo(n)) = 1

\* the message was acknowledged with { success: true }
Acked(n) == \E k \in ResponsesTo(n) : port.posted[k].data = Success

\* the plugin name an acknowledged addPlugin or removePlugin message is about
NamedBy(n) ==
    CASE port.handled[n].type = "addPlugin" /\ Acked(n) -> {The(port.handled[n].plugin).name}
      [] port.handled[n].type = "removePlugin" /\ Acked(n) -> port.handled[n].id
      [] OTHER -> {}

\* the latest acknowledged addPlugin or removePlugin about this name before
\* message n ({} if there is none)
LatestAbout(name, n) ==
    {m \in 1..(n - 1) :
        /\ NamedBy(m) = {name}
        /\ \A j \in (m + 1)..(n - 1) : NamedBy(j) # {name}}

\* the list a listPlugins message was answered with holds this name with these sites
Lists(n, name, sites) ==
    \E k \in ResponsesTo(n) : \E i \in 1..Len(port.posted[k].data.items) :
        /\ port.posted[k].data.items[i].name = name
        /\ port.posted[k].data.items[i].sites = sites

ListsName(n, name) ==
    \E k \in ResponsesTo(n) : \E i \in 1..Len(port.posted[k].data.items) :
        port.posted[k].data.items[i].name = name

\* C28: a listPlugins message is answered with a list that holds, for every
\* name, the name with the sites of the plugin if the latest acknowledged
\* addPlugin or removePlugin about the name was an addPlugin, and does not
\* hold the name if it was a removePlugin; and once removePlugin(name) is
\* acknowledged, with no addPlugin or addMiddleware after it, no unit of
\* that name is in the handler map.
C28_ListFollowsAddAndRemove ==
    /\ \A n \in 1..Len(port.handled) :
          (port.handled[n].reflux /\ port.handled[n].type = "listPlugins") =>
              \A name \in {"p", "q"} : \A m \in LatestAbout(name, n) :
                  IF port.handled[m].type = "addPlugin"
                      THEN Lists(n, name, The(port.handled[m].plugin).sites)
                      ELSE ~ListsName(n, name)
    /\ \A name \in {"p", "q", "A"} : \A m \in LatestAbout(name, Len(port.handled) + 1) :
          (/\ port.handled[m].type = "removePlugin"
           /\ \A j \in (m + 1)..Len(port.handled) : port.handled[j].type # "addMiddleware")
            => ~MapHas(middleware, name)

\* p and q were added, p was removed, and the list was asked for
C28_Witness ==
    /\ Len(port.handled) = 4
    /\ port.handled[1].type = "addPlugin" /\ port.handled[1].plugin # {}
    /\ port.handled[2].type = "addPlugin" /\ port.handled[2].plugin # {}
    /\ The(port.handled[1].plugin).name # The(port.handled[2].plugin).name
    /\ port.handled[3].type = "removePlugin" /\ port.handled[3].id = {"p"}
    /\ port.handled[4].type = "listPlugins"
    /\ Len(port.posted) = 4
    /\ Len(port.posted[4].data.items) = 1

-----------------------------------------------------------------------------
(* The enabled field changed while a stage runs *)

\* a control message is handled while the unit whose turn it was is suspended
\* in an await of its own (the first unit is invoked in the turn that
\* filtered the array, so an earlier unit has been invoked)
DuringStage ==
    /\ pc \in {"request", "response"}
    /\ idx > 1
    /\ ctl < MaxCtl
    /\ ctl' = ctl + 1

\* case 'setMiddlewareEnabled' during a stage: the unit object in the map is
\* the one the stage took into its array, so the array shows the new value
SetEnabledDuringStage(id, enabled) ==
    /\ DuringStage
    /\ IF MapHas(middleware, id)
           THEN /\ middleware' =
                      [middleware EXCEPT ![IndexOfId(middleware, id)].enabled = enabled]
                /\ enabledMiddleware' = WithEnabled(enabledMiddleware, id, enabled)
                /\ Acknowledged
           ELSE UNCHANGED <<middleware, enabledMiddleware, port>>
    /\ TrafficUnchanged
    /\ UNCHANGED plugins

\* case 'addMiddleware' during a stage: the map gets another object under the
\* id, the array of the stage keeps the units it was filtered to
AddDuringStage(id, caps, enabled) ==
    /\ DuringStage
    /\ middleware' = MapSet(middleware, id, Unit(id, caps, enabled))
    /\ enabledMiddleware' = Replaced(enabledMiddleware, id)
    /\ Acknowledged
    /\ TrafficUnchanged
    /\ UNCHANGED plugins

\* case 'removeMiddleware' during a stage: the array of the stage keeps the unit
RemoveDuringStage(id) ==
    /\ DuringStage
    /\ middleware' = MapDelete(middleware, id)
    /\ enabledMiddleware' = Replaced(enabledMiddleware, id)
    /\ Acknowledged
    /\ TrafficUnchanged
    /\ UNCHANGED plugins

ToggleNext ==
    \/ \E id \in {"A", "B"}, caps \in CapSets : AddMiddleware(id, caps, "undefined")
    \/ \E id \in {"A", "B"}, e \in {"true", "false"} : SetEnabledDuringStage(id, e)
    \/ \E id \in {"A", "B"}, caps \in CapSets, e \in {"undefined", "false"} :
            AddDuringStage(id, caps, e)
    \/ \E id \in {"A", "B"} : RemoveDuringStage(id)
    \/ \E ctx \in {Context(Url(HostA), NoHeaders)} : ProcessRequestStart(ctx)
    \/ \E s \in {"next", "throw"} : ProcessRequestUnit(s)
    \/ ProcessRequestReturn
    \/ \E ctx \in {Context(Url(HostA), NoHeaders)}, r \in InitialResponses :
            ProcessResponseStart(ctx, r, <<>>)
    \/ \E s \in {"next", "throw"} : ProcessResponseUnit(s)
    \/ ProcessResponseReturn
    \/ Settle

ToggleSpec == Init /\ [][ToggleNext]_vars

\* C29 (as claimed): a unit is invoked in a stage only if its enabled value
\* is not false at the moment its turn comes.
C29_EnabledReadAtEachTurn ==
    [][(pc \in {"request", "response"} /\ Len(log') = Len(log) + 1)
          => isMiddlewareEnabled(enabledMiddleware[idx]) = "true"]_vars

-----------------------------------------------------------------------------
(* The body handed back after plugin units *)

\* C30 (as claimed): when a response stage in which a plugin unit ran has
\* ended, the body it hands back, if it is a stream, is not locked and has
\* all the chunks the transport's stream came with.
C30_DeliveredStreamUntouched ==
    (/\ pc = "responseDone"
     /\ \E k \in 1..Len(log) : log[k].script = "plugin"
     /\ currentResponse.body.kind = "stream")
      => /\ ~streams[currentResponse.body.sid].locked
         /\ streams[currentResponse.body.sid].chunks = upstream.chunks

-----------------------------------------------------------------------------
(* Claims about two plugin units in one response stage *)

\* the unit of log entry i came from a plugin whose sites match the request
\* and met a response with an HTML content-type
EligibleAt(i) ==
    /\ log[i].script = "plugin"
    /\ shouldPluginRunOnSite(RegisteredUnit(log[i].id).plugin, currentContext.remote) = "true"
    /\ IsHtml(log[i].seen.headers)

\* the executePlugin calls made by the unit of log entry i
RanBy(i) == {k \in 1..Len(ran) : ran[k].id = log[i].id}

\* C31 (as claimed): with two plugins A then B that both match an eligible
\* response, the body B's execution is given (the one its delivery-time
\* fragment works on, after B's own injection if it has a region) is the
\* string A's execution returned, and the body after B reads as the string
\* B's execution returned.
C31_LaterPluginSeesEarlierResult ==
    \A i \in 1..(Len(log) - 1) :
        (InResponseStage /\ EligibleAt(i) /\ EligibleAt(i + 1))
          => \A a \in RanBy(i), b \in RanBy(i + 1) :
                /\ ran[b].body = ran[a].returns
                /\ i + 1 = Len(log)
                     => Readable(currentResponse.body, streams) = {ran[b].returns}

-----------------------------------------------------------------------------
(* Claims about the messages of a connection *)

\* C32 (as claimed): when a unit's message handler returned no value, the data
\* is lost: the payload the next unit is invoked with, and the payload handed
\* on when it was the last unit, is not the data that unit received.
C32_NoReturnLosesData ==
    pc \in {"message", "messageDone"} =>
        \A i \in 1..Len(log) :
            log[i].script = "none" =>
                /\ i < Len(log) => log[i + 1].seen # log[i].seen
                /\ (i = Len(log) /\ conn.out # <<>>) => conn.out[1].data # log[i].seen

-----------------------------------------------------------------------------
(* connect(): several messages of one connection in flight at a time *)

\* messages taken from the transport and from the caller in one behaviour
MaxWire == 2

\* the units a connection's messages meet
WireUnits == {"A", "B"}

\* a call made on the caller's callbacks or on the transport's send and close:
\* n is the number of the message within its direction, 0 for a close
WireCall(to, n, data) == [to |-> to, n |-> n, data |-> data]

Called(to) == \E i \in 1..Len(wire.out) : wire.out[i].to = to

WireUnchanged ==
    UNCHANGED <<middleware, ctl, pc, enabledMiddleware, idx, currentContext, currentResponse,
                processedData, registered, before, log, escaped, plugins, streams,
                upstream, ran, execIn, execOut, call, conn, store, loads, api, hist, port,
                boot, rpc>>

\* processWebSocketMessage(data, direction) is called, by the callback given
\* to inner.connect or by wrappedSend: it filters the units and invokes the
\* first handler; with no unit its promise resolves at once, and when the
\* filter throws it rejects at once and nothing is handed on
WireArrives(data, direction) ==
    /\ wire.sent + wire.received < MaxWire
    /\ ~Called(IF direction = "receive" THEN "onclose" ELSE "close")
    /\ \E entry \in {StageEntry(middleware, "modifyWebSocketMessage")} :
       \E units \in {entry.units} :
       \E flight \in {[n |-> IF direction = "receive"
                               THEN wire.received + 1 ELSE wire.sent + 1,
                       direction |-> direction, units |-> units, idx |-> 1,
                       processedData |-> data]} :
          wire' = [wire EXCEPT
                     !.flights = IF units = <<>> THEN @ ELSE Append(@, flight),
                     !.ready = IF units = <<>> /\ entry.pc # "failed"
                                 THEN Append(@, flight) ELSE @,
                     !.sent = IF direction = "send" THEN @ + 1 ELSE @,
                     !.received = IF direction = "receive" THEN @ + 1 ELSE @]
    /\ WireUnchanged

\* the handler awaited in flight k settles as script s has it: the result is
\* assigned unless undefined, a throw is caught, and the next handler is
\* invoked or the promise of processWebSocketMessage resolves
WireHandlerSettles(k, s) ==
    /\ k \in 1..Len(wire.flights)
    /\ \E f \in {wire.flights[k]} :
       \E result \in {IF ScriptThrows(s) THEN {}
                      ELSE MsgReturn(f.processedData, f.units[f.idx].id, s)} :
       \E g \in {[f EXCEPT !.processedData = AssignData(f.processedData, result),
                           !.idx = f.idx + 1]} :
          wire' = [wire EXCEPT
                     !.flights = IF g.idx > Len(g.units)
                                   THEN [i \in 1..(Len(@) - 1) |->
                                            IF i < k THEN @[i] ELSE @[i + 1]]
                                   ELSE [@ EXCEPT ![k] = g],
                     !.ready = IF g.idx > Len(g.units) THEN Append(@, g) ELSE @]
    /\ WireUnchanged

\* the continuation of the earliest resolved call runs:
\* onmessage(processedData) or send(processedData)
WireHandsOn ==
    /\ wire.ready # <<>>
    /\ \E f \in {Head(wire.ready)} :
          wire' = [wire EXCEPT
                     !.ready = Tail(@),
                     !.out = Append(@, WireCall(MessageTarget(f.direction), f.n,
                                                f.processedData))]
    /\ WireUnchanged

\* the transport calls onclose, which is the caller's callback itself
TransportCloses ==
    /\ ~Called("onclose")
    /\ wire' = [wire EXCEPT !.out = Append(@, WireCall("onclose", 0, <<>>))]
    /\ WireUnchanged

\* the caller calls close, which is the transport's close itself
CallerCloses ==
    /\ ~Called("close")
    /\ wire' = [wire EXCEPT !.out = Append(@, WireCall("close", 0, <<>>))]
    /\ WireUnchanged

\* the units are registered before the connection carries its first message
WireNext ==
    \/ /\ wire = NoWire
       /\ \E id \in WireUnits : AddMiddleware(id, {"modifyWebSocketMessage"}, "undefined")
    \/ /\ wire = NoWire
       /\ \E id \in WireUnits : RemoveMiddleware(id)
    \/ \E d \in Messages, dir \in Directions : WireArrives(d, dir)
    \/ \E k \in 1..MaxWire, s \in MsgScripts : WireHandlerSettles(k, s)
    \/ WireHandsOn
    \/ TransportCloses
    \/ CallerCloses

WireSpec == Init /\ [][WireNext]_vars

\* C33 (as claimed): per direction, messages are handed on in the order they
\* arrived: onmessage receives the result of an inbound message before that of
\* any later inbound message, and the transport's send receives the result of
\* an outbound message before that of any later one.
C33_ArrivalOrderKept ==
    \A i, j \in 1..Len(wire.out) :
        (i < j /\ wire.out[i].to = wire.out[j].to /\ wire.out[i].to \in {"onmessage", "send"})
          => wire.out[i].n < wire.out[j].n

\* C34 (as claimed): no onmessage call follows the onclose call, and no call of
\* the transport's send follows the caller's call of close.
C34_NothingAfterClose ==
    \A i, j \in 1..Len(wire.out) :
        i < j => /\ wire.out[i].to = "onclose" => wire.out[j].to # "onmessage"
                 /\ wire.out[i].to = "close" => wire.out[j].to # "send"

-----------------------------------------------------------------------------
(* Claims about requests beside a reload *)

\* C35 (as claimed): a response stage that runs while reloadPlugins is under
\* way, or after it, meets the registry whole: the plugin units it takes are
\* the complete set the store gives (which, the store being left alone, is
\* the set loaded before the reload and the set the reload loads), never an
\* empty or partly rebuilt registry.  Runs with a storage fault are set aside.
C35_ReloadSeenWhole ==
    (/\ InResponseStage
     /\ \E k \in 1..Len(loads) : loads[k].reload
     /\ \A k \in 1..Len(loads) : ~loads[k].faulted /\ (~loads[k].reload => loads[k].pc = "done"))
      => Ids(registered) = Persisted

\* a reload has been called and has not ended
ReloadUnderWay == \E k \in 1..Len(loads) : loads[k].reload /\ loads[k].pc # "done"

\* C35 (amended): a response stage that runs while reloadPlugins is under way,
\* or after it, takes the units that are in the registry at the moment it
\* begins and applies exactly those, in order; each of them is a plugin the
\* store gives as enabled with a source (the stores being left alone), but
\* while a reload is under way they may be none or only some of these.
C35_ReloadSeenAsFound ==
    (InResponseStage /\ \E k \in 1..Len(loads) : loads[k].reload)
      => /\ Ids(registered) \subseteq Persisted
         /\ enabledMiddleware = registered
         /\ Len(log) <= Len(registered)
         /\ \A i \in 1..Len(log) : log[i].id = registered[i].id
         /\ pc = "responseDone" => Len(log) = Len(registered)

\* a response stage ran to its end on an empty registry while a reload of a
\* store with an enabled plugin was under way, and another after the reload
\* would meet the plugin
C35_Witness ==
    /\ pc = "responseDone"
    /\ ReloadUnderWay
    /\ \A k \in 1..Len(loads) : ~loads[k].faulted
    /\ registered = <<>>
    /\ Persisted # {}

-----------------------------------------------------------------------------
(* Claims about management calls under way together *)

\* no disablePlugin or removePlugin call was made for this name
NeverTakenOff(name) ==
    \A k \in 1..Len(api) :
        api[k].name = name => api[k].op \notin {"disablePlugin", "removePlugin"}

\* C36 (as claimed): once enablePlugin(a) and enablePlugin(b), for different
\* plugins, have both resolved, and neither plugin was disabled or removed,
\* the persisted enabled list holds both, however the two calls interleaved.
C36_EnablesDoNotInterfere ==
    \A i, j \in 1..Len(api) :
        (/\ api[i].op = "enablePlugin" /\ api[j].op = "enablePlugin"
         /\ api[i].name # api[j].name
         /\ api[i].outcome = "resolved" /\ api[j].outcome = "resolved"
         /\ NeverTakenOff(api[i].name) /\ NeverTakenOff(api[j].name))
          => InSeq(api[i].name, store.enabled) /\ InSeq(api[j].name, store.enabled)

\* the management calls made so far were made one after the other, each
\* having resolved before the next was made
OneAfterAnother ==
    /\ \A k \in 1..Len(api) : api[k].outcome = "resolved"
    /\ \A k \in 1..(Len(api) - 1) :
          \E a, b \in 1..Len(hist) :
              /\ a < b
              /\ hist[a].ev = "return" /\ hist[a].k = k
              /\ hist[b].ev = "call" /\ hist[b].k = k + 1

\* C37 (as claimed): after any sequence of management calls, every identifier
\* in the persisted enabled list is the identifier of a plugin whose source
\* is in the store.
C37_EnabledAreStored ==
    (Len(api) > 0 /\ OneAfterAnother)
      => \A n \in 1..Len(store.enabled) : store.code[store.enabled[n]] # {}

-----------------------------------------------------------------------------
(* The merge of a response unit's result on its own *)

\* what a unit may supply for each field: nothing, a falsy value, or another
MergePatches ==
    [body : {{}, {StringBody(<<>>)}, {StringBody(<<"y">>)}, {NullBody}},
     headers : {{}, {NoHeaders}, {[k \in {"x-unit"} |-> <<"1">>]}},
     status : {{}, {0}, {404}},
     statusText : {{}, {<<>>}, {<<"Not Found">>}}]

\* the response before the unit, the object the unit supplies, and the way it
\* supplies it: returned from onResponse, or passed to its continuation
MergeInputs ==
    { [cur |-> Response(StringBody(<<"x">>), [k \in {"content-type"} |-> <<"text/html">>],
                        200, <<"OK">>),
       patch |-> p, via |-> v] :
        p \in MergePatches, v \in {"return", "next"} }

MergeInit ==
    /\ middleware = <<>>
    /\ ctl = 0
    /\ pc = "idle"
    /\ enabledMiddleware = <<>>
    /\ idx = 1
    /\ currentContext = NoContext
    /\ currentResponse = NoResponse
    /\ processedData = <<>>
    /\ registered = <<>>
    /\ before = <<>>
    /\ log = <<>>
    /\ escaped = FALSE
    /\ plugins = <<>>
    /\ streams = <<>>
    /\ upstream = NoUpstream
    /\ ran = <<>>
    /\ \E i \in MergeInputs : execIn = {i}
    /\ execOut = {}
    /\ call = NoCall
    /\ conn = NoConn
    /\ store = NoStore
    /\ loads = <<>>
    /\ api = <<>>
    /\ hist = <<>>
    /\ port = NoPort
    /\ wire = NoWire
    /\ boot = NoBoot
    /\ rpc = NoRpc

\* currentResponse after `await next(modifiedResp)` or after
\* `if (result) currentResponse = { ... }`
Merge ==
    /\ execIn # {}
    /\ execOut = {}
    /\ execOut' = {IF The(execIn).via = "next"
                     THEN NextResponse(The(execIn).cur, {The(execIn).patch})
                     ELSE AssignResponse(The(execIn).cur, {The(execIn).patch})}
    /\ UNCHANGED <<middleware, ctl, pc, enabledMiddleware, idx, currentContext,
                   currentResponse, processedData, registered, before, log, escaped,
                   plugins, streams, upstream, ran, execIn, facadeVars>>

MergeNext == Merge

MergeSpec == MergeInit /\ [][MergeNext]_vars

\* C38 (as claimed): when a response unit returns a response object, or passes
\* a patch to its continuation, the current response takes every field the
\* unit supplied: body, headers, status and status text equal the supplied
\* values, an empty string body, an empty status text and status 0 included.
C38_SuppliedFieldsTaken ==
    execOut # {} =>
        LET patch == The(execIn).patch
            out == The(execOut)
        IN  /\ patch.body # {} => out.body = The(patch.body)
            /\ patch.headers # {} => out.headers = The(patch.headers)
            /\ patch.status # {} => out.status = The(patch.status)
            /\ patch.statusText # {} => out.statusText = The(patch.statusText)

-----------------------------------------------------------------------------
(* RefluxTransport.init(): the facade's initialization *)

BootUnchanged ==
    UNCHANGED <<middleware, ctl, pc, enabledMiddleware, idx, currentContext, currentResponse,
                processedData, registered, before, log, escaped, plugins, streams,
                upstream, ran, execIn, execOut, call, conn, store, api, hist, port, wire, rpc>>

LoadsDone == \A k \in 1..Len(loads) : loads[k].pc = "done"

\* init() is called on a transport class with or without an init method:
\* it awaits import(transportPath)
BootCalled(hasInit) ==
    /\ boot.pc = "new"
    /\ boot' = [boot EXCEPT !.pc = "import", !.hasInit = hasInit]
    /\ UNCHANGED loads
    /\ BootUnchanged

\* new MiddlewareTransport(inner), whose constructor begins the plugin load
\* without awaiting it, then wrapped.init() up to `await this.inner.init?.()`
BootWrapped(b) ==
    [b EXCEPT !.pc = "wrappedInit", !.inits = IF b.hasInit THEN @ + 1 ELSE @]

\* the import settles; the transport is constructed and, when it has an init
\* method, `await this.#inner.init()` is reached
BootImported(ok) ==
    /\ boot.pc = "import"
    /\ boot' = IF ~ok THEN [boot EXCEPT !.pc = "failed"]
               ELSE IF boot.hasInit THEN [boot EXCEPT !.pc = "innerInit", !.inits = @ + 1]
               ELSE BootWrapped(boot)
    /\ loads' = IF ok /\ ~boot.hasInit THEN Append(loads, NewLoad(FALSE)) ELSE loads
    /\ BootUnchanged

\* the promise of this.#inner.init() settles
BootInnerInitSettles(ok) ==
    /\ boot.pc = "innerInit"
    /\ boot' = IF ok THEN BootWrapped(boot) ELSE [boot EXCEPT !.pc = "failed"]
    /\ loads' = IF ok THEN Append(loads, NewLoad(FALSE)) ELSE loads
    /\ BootUnchanged

\* the promise awaited in MiddlewareTransport.init settles: this.ready = true
\* there, then this.ready = true in RefluxTransport.init; or the catch rethrows
BootWrappedInitSettles(ok) ==
    /\ boot.pc = "wrappedInit"
    /\ ok \/ boot.hasInit
    /\ boot' = IF ok THEN [boot EXCEPT !.pc = "done", !.wrappedReady = TRUE, !.ready = TRUE,
                                       !.loadDone = LoadsDone]
               ELSE [boot EXCEPT !.pc = "failed"]
    /\ UNCHANGED loads
    /\ BootUnchanged

BootInit ==
    /\ middleware = <<>>
    /\ ctl = 0
    /\ pc = "idle"
    /\ enabledMiddleware = <<>>
    /\ idx = 1
    /\ currentContext = NoContext
    /\ currentResponse = NoResponse
    /\ processedData = <<>>
    /\ registered = <<>>
    /\ before = <<>>
    /\ log = <<>>
    /\ escaped = FALSE
    /\ plugins = <<>>
    /\ streams = <<>>
    /\ upstream = NoUpstream
    /\ ran = <<>>
    /\ execIn = {}
    /\ execOut = {}
    /\ call = NoCall
    /\ conn = NoConn
    /\ store \in InitialStores
    /\ loads = <<>>
    /\ api = <<>>
    /\ hist = <<>>
    /\ port = NoPort
    /\ wire = NoWire
    /\ boot = NoBoot
    /\ rpc = NoRpc

BootNext ==
    \/ \E hasInit \in BOOLEAN : BootCalled(hasInit)
    \/ \E ok \in BOOLEAN : BootImported(ok)
    \/ \E ok \in BOOLEAN : BootInnerInitSettles(ok)
    \/ \E ok \in BOOLEAN : BootWrappedInitSettles(ok)
    \/ \E k \in 1..Len(loads) : LoadReadEnabled(k)
    \/ \E k \in 1..Len(loads) : LoadReadKeys(k)
    \/ \E k \in 1..Len(loads) : LoadReadCode(k)
    \/ \E k \in 1..Len(loads) : LoadReadMeta(k)

BootSpec == BootInit /\ [][BootNext]_vars

\* C39 (as claimed): one initialization of the facade calls the transport's
\* init exactly once; ready becomes true only after that init and the plugin
\* load have completed; and when the transport's init fails, the failure
\* propagates and ready stays false.
C39_InitOnceThenReady ==
    /\ (boot.pc = "done" /\ boot.hasInit) => boot.inits = 1
    /\ boot.ready => boot.pc = "done" /\ boot.loadDone
    /\ boot.pc = "failed" => ~boot.ready /\ ~boot.wrappedReady

-----------------------------------------------------------------------------
(* RefluxAPI over a MessagePort: sendMessage and the port's onmessage *)

\* sendMessage calls made and messages delivered by the port in one behaviour
MaxRpc == 2
MaxReplies == 2

\* an entry of the history: a sendMessage call that posted its message
\* ("send"), one whose port.postMessage threw ("throw"), a message the port
\* delivered ("message") or a timer that fired ("timeout")
RpcEvent(ev, id, message) == [ev |-> ev, id |-> id, message |-> message]

\* a message on the port.  messageId: 0 when it has none; data: "ok" for data
\* without an error field, "error" for { error: 'boom' }, "blank" for
\* { error: '' }
RpcMessage(reflux, type, messageId, data) ==
    [reflux |-> reflux, type |-> type, messageId |-> messageId, data |-> data]

NoRpcMessage == RpcMessage(FALSE, "", 0, "ok")

\* message.data?.error
RpcError(data) ==
    CASE data = "error" -> {<<"boom">>}
      [] data = "blank" -> {<<>>}
      [] OTHER -> {}

\* the messages a port may deliver: one without the marker, one that is not a
\* response, one without a messageId, responses to each id a call may take,
\* and a response to an id no call takes
RpcMessages ==
    { RpcMessage(FALSE, "response", 1, "ok"),
      RpcMessage(TRUE, "listPlugins", 1, "ok"),
      RpcMessage(TRUE, "response", 0, "ok") }
    \cup
    { RpcMessage(TRUE, "response", n, d) : n \in 1..MaxRpc, d \in {"ok", "error", "blank"} }
    \cup
    { RpcMessage(TRUE, "response", MaxRpc + 1, "ok") }

\* a promise just created by sendMessage, with its timer.  settles: history,
\* the calls made of its resolve and reject
NewPromise == [state |-> "pending", by |-> "none", settles |-> 0, timer |-> "armed"]

RpcUnchanged ==
    UNCHANGED <<middleware, ctl, pc, enabledMiddleware, idx, currentContext, currentResponse,
                processedData, registered, before, log, escaped, plugins, streams,
                upstream, ran, execIn, execOut, call, conn, store, loads, api, hist, port,
                wire, boot>>

\* the promise of a sendMessage call whose port.postMessage threw (a message
\* that cannot be cloned, such as the one addMiddleware posts, which holds
\* the handler functions): the executor threw, so the constructor rejected
\* the promise with what was thrown, and setTimeout was never reached
ThrownPromise == [state |-> "rejected", by |-> "post", settles |-> 1, timer |-> "none"]

\* sendMessage(message): the id is taken, the entry is set, the message is
\* posted and the timer is started.  posts: port.postMessage returns; when it
\* throws, the entry that was set stays in pendingMessages
RpcSend(posts) ==
    /\ Len(rpc.calls) < MaxRpc
    /\ \E messageId \in {Len(rpc.calls) + 1} :
          rpc' = [calls |-> Append(rpc.calls, IF posts THEN NewPromise ELSE ThrownPromise),
                  pending |-> rpc.pending \cup {messageId},
                  events |-> Append(rpc.events,
                                    RpcEvent(IF posts THEN "send" ELSE "throw",
                                             messageId, NoRpcMessage))]
    /\ RpcUnchanged

\* pending.reject(...) or pending.resolve(...), or reject(...) from the
\* timer: a promise that has settled stays as it is
Settled(p, state, by) ==
    [p EXCEPT !.state = IF p.state = "pending" THEN state ELSE @,
              !.by = IF p.state = "pending" THEN by ELSE @,
              !.settles = @ + 1]

\* port.onmessage fires with this message
RpcDelivers(message) ==
    /\ Cardinality({i \in 1..Len(rpc.events) : rpc.events[i].ev = "message"}) < MaxReplies
    /\ \E id \in {message.messageId} :
          rpc' = IF /\ message.reflux
                    /\ message.type = "response" /\ id # 0
                    /\ id \in rpc.pending
                   THEN [calls |-> [rpc.calls EXCEPT ![id] =
                                       IF RpcError(message.data) \notin {{}, {<<>>}}
                                           THEN Settled(@, "rejected", "response")
                                           ELSE Settled(@, "resolved", "response")],
                         pending |-> rpc.pending \ {id},
                         events |-> Append(rpc.events, RpcEvent("message", id, message))]
                   ELSE [rpc EXCEPT !.events = Append(@, RpcEvent("message", id, message))]
    /\ RpcUnchanged

\* the callback of setTimeout(..., 15000) for call k runs
RpcTimeout(k) ==
    /\ k \in 1..Len(rpc.calls)
    /\ rpc.calls[k].timer = "armed"
    /\ rpc' = [calls |-> [rpc.calls EXCEPT ![k] =
                             IF k \in rpc.pending
                                 THEN [Settled(@, "rejected", "timeout") EXCEPT !.timer = "fired"]
                                 ELSE [@ EXCEPT !.timer = "fired"]],
               pending |-> rpc.pending \ {k},
               events |-> Append(rpc.events, RpcEvent("timeout", k, NoRpcMessage))]
    /\ RpcUnchanged

\* the timers that are started fire
RpcTimers == \E k \in 1..MaxRpc : RpcTimeout(k)

RpcNext ==
    \/ \E posts \in BOOLEAN : RpcSend(posts)
    \/ \E message \in RpcMessages : RpcDelivers(message)
    \/ RpcTimers

RpcSpec == Init /\ [][RpcNext]_vars /\ WF_vars(RpcTimers)

-----------------------------------------------------------------------------
(* Claims about the calls made over the port *)

\* event i is a response that carries the id of call k, or the timeout of
\* call k, after call k was made and posted
ConcernsCall(i, k) ==
    /\ \E s \in 1..(i - 1) : rpc.events[s].ev = "send" /\ rpc.events[s].id = k
    /\ \/ rpc.events[i].ev = "timeout" /\ rpc.events[i].id = k
       \/ /\ rpc.events[i].ev = "message"
          /\ rpc.events[i].message.reflux
          /\ rpc.events[i].message.type = "response"
          /\ rpc.events[i].message.messageId = k

\* the first of these events, if there is one
FirstConcerning(k) ==
    {i \in 1..Len(rpc.events) :
        ConcernsCall(i, k) /\ \A j \in 1..(i - 1) : ~ConcernsCall(j, k)}

\* how the call is to have settled, going by the history alone
SettledAs(k) ==
    IF FirstConcerning(k) = {} THEN [state |-> "pending", by |-> "none"]
    ELSE LET e == rpc.events[The(FirstConcerning(k))]
         IN  IF e.ev = "timeout" THEN [state |-> "rejected", by |-> "timeout"]
             ELSE IF e.message.data = "error" THEN [state |-> "rejected", by |-> "response"]
             ELSE [state |-> "resolved", by |-> "response"]

\* C40 (as claimed): each call made through sendMessage settles exactly once:
\* it is resolved by the first response that carries its id, rejected when that
\* response carries an error (an error text that is not empty), or rejected
\* by its timeout, whichever comes first, and resolve or reject is called on
\* it once and no more; its entry is in the pending map exactly while it has
\* not settled; a response that comes after the timeout, a second response,
\* or one with an id that is not pending changes nothing; and every call
\* made settles in the end.
C40_EachCallSettlesOnce ==
    /\ [](\A k \in 1..Len(rpc.calls) :
            /\ rpc.calls[k].state = SettledAs(k).state
            /\ rpc.calls[k].by = SettledAs(k).by
            /\ rpc.calls[k].settles = IF rpc.calls[k].state = "pending" THEN 0 ELSE 1
            /\ k \in rpc.pending <=> rpc.calls[k].state = "pending")
    /\ [](rpc.pending \subseteq 1..Len(rpc.calls))
    /\ \A k \in 1..MaxRpc :
          (Len(rpc.calls) >= k) ~> (Len(rpc.calls) >= k /\ rpc.calls[k].state # "pending")

====
